---- MODULE Spec2Model ----
(***************************************************************************)
(* Watchlist price-alert engine of DexOwl: the watchlist store, the        *)
(* polling scheduler (startMonitor / stopMonitor), the sweep (checkPrices)  *)
(* with its suspension points, and the chat commands that change the store. *)
(*                                                                         *)
(* Strings whose letter case matters (token addresses, chain ids) are       *)
(* sequences of one-character strings, so that toLowerCase is computed.     *)
(* Prices are integers in units of 0.01 USD; a percent change is kept as    *)
(* an exact fraction num/den (IEEE rounding is not modelled).               *)
(***************************************************************************)
EXTENDS Integers, Sequences, FiniteSets

\* ------------------------------------------------------------------ bounds
\* Events of one run (chat commands handled plus sweeps started), and warm-up
\* timers pending at once.
MaxEvents == 3
MaxWarmups == 1
\* The horizon of a timed run, in ms.
MaxTime == 12000

\* Chat events of a run with conversations (messages, commands, button presses).
MaxMessages == 5

\* The largest decimal exponent of a formatted number, either way.
MaxExponent == 13

\* The calls of the format functions on one number.
MaxFormats == 2

\* The MongoClient objects created in a run.
MaxClients == 7

\* The most pairs in one response of the upstream.
MaxPairs == 3

\* The longest address list given to getMultipleTokensData.
MaxAddresses == 61

\* const batchSize = 30
BatchSize == 30

\* database.js
MAX_RETRIES == 3
INITIAL_RETRY_DELAY_MS == 1000

\* setTimeout(() => checkPrices(), 5000) and the default of intervalMs.
WarmupDelayMs == 5000
DefaultIntervalMs == 60000

SweepIds == 1..MaxEvents

\* ------------------------------------------------------------------ inputs
bsc == <<"b", "s", "c">>
ton == <<"t", "o", "n">>
ChatIds == {1, 2}
AddressInputs == {<<"a", "B">>, <<"a", "b">>}
\* The chain ids of the chain keyboard's buttons.
InteractiveChainInputs == {bsc}
DirectChainInputs == {<<"B", "N", "B">>, <<"x">>}
ThresholdTexts == {"", "abc", "0", "10", "101"}
Thresholds == {5, 10}
AddPrices == {0, 100}
SweepPrices == {0, 95, 96, 106}
ScriptedPrices == <<94, 89, 92, 84>>

VARIABLES
    store,            \* the watchlist collection, in insertion order
    monitorInterval,  \* the interval timer of priceMonitor.js (0: null)
    warmups,          \* pending setTimeout callbacks of startMonitor
    bot,              \* the bot reference of priceMonitor.js
    sweeps,           \* the checkPrices() calls: where each is suspended
    reply,            \* the answer sent by the chat command of the last step
    events,           \* chat commands handled plus sweeps started so far
    script,           \* scripted upstream prices (scenario runs only)
    alerts,           \* alerts counted in a scenario run
    clock,            \* the time and the timers' due times (timed runs only)
    calls,            \* the calls logged in a scenario run
    batch,            \* a getMultipleTokensData call: its input and its result
    conversationState, \* the interactive flows of interactive.js, chat by chat
    database          \* database.js: client, db and the connectDB call in flight

vars == <<store, monitorInterval, warmups, bot, sweeps, reply, events, script, alerts,
          clock, calls, batch, conversationState, database>>
harness == <<script, alerts, clock, calls, batch, conversationState, database>>

\* ----------------------------------------------------------------- strings
LowerChar(c) ==
    CASE c = "A" -> "a"
      [] c = "B" -> "b"
      [] c = "C" -> "c"
      [] c = "N" -> "n"
      [] c = "O" -> "o"
      [] c = "S" -> "s"
      [] c = "T" -> "t"
      [] c = "X" -> "x"
      [] OTHER -> c

ToLowerCase(s) == [i \in 1..Len(s) |-> LowerChar(s[i])]

Undefined == <<>>

ChainAlias(x) ==
    CASE x = <<"b", "n", "b">> -> bsc
      [] x = bsc -> bsc
      [] x = ton -> ton
      [] OTHER -> Undefined

NaN == [nan |-> TRUE, val |-> 0]

ParseFloat(text) ==
    CASE text = "0" -> [nan |-> FALSE, val |-> 0]
      [] text = "5" -> [nan |-> FALSE, val |-> 5]
      [] text = "10" -> [nan |-> FALSE, val |-> 10]
      [] text = "101" -> [nan |-> FALSE, val |-> 101]
      [] OTHER -> NaN

\* String(chatId)
StringOf(n) == CASE n = 1 -> "1" [] n = 2 -> "2" [] OTHER -> "?"

\* Variant: the threshold check has no upper limit.
InvalidThresholdNoCeiling(t) == t.nan \/ t.val <= 0

\* A threshold the command handlers reject.
InvalidThreshold(t) == t.nan \/ t.val <= 0 \/ t.val > 100

\* ------------------------------------------------------------------- store
SameKey(e, tokenAddress, chainId, chatId) ==
    /\ e.tokenAddress = tokenAddress
    /\ e.chainId = chainId
    /\ e.chatId = chatId

\* The unique index on (tokenAddress, chainId, chatId).
DuplicateKey(coll, entry) ==
    \E i \in 1..Len(coll) :
        SameKey(coll[i], entry.tokenAddress, entry.chainId, entry.chatId)

\* new Date(): the time of the run, where time is kept.
Now == clock.now

\* Variant: the key is stored as typed, without toLowerCase.
NewEntryAsGiven(tokenAddress, chainId, currentPrice, dropThreshold, chatId) ==
    [tokenAddress |-> tokenAddress,
     chainId |-> chainId,
     dropThreshold |-> dropThreshold,
     lastAlertPrice |-> currentPrice,
     initialPrice |-> currentPrice,
     addedAt |-> Now,
     chatId |-> chatId]

NewEntry(tokenAddress, chainId, currentPrice, dropThreshold, chatId) ==
    [tokenAddress |-> ToLowerCase(tokenAddress),
     chainId |-> ToLowerCase(chainId),
     dropThreshold |-> dropThreshold,
     lastAlertPrice |-> currentPrice,
     initialPrice |-> currentPrice,
     addedAt |-> Now,
     chatId |-> chatId]

\* addToWatchlist: the collection after the call, and whether it returned the
\* entry (TRUE) or null (FALSE). dbOk = FALSE is any other storage error.
AddToWatchlist(coll, tokenAddress, chainId, currentPrice, dropThreshold, chatId, dbOk) ==
    LET entry == NewEntry(tokenAddress, chainId, currentPrice, dropThreshold, chatId)
    IN  IF dbOk /\ ~DuplicateKey(coll, entry)
        THEN [coll |-> Append(coll, entry), added |-> TRUE]
        ELSE [coll |-> coll, added |-> FALSE]

RECURSIVE DeleteOne(_, _, _, _)
DeleteOne(coll, tokenAddress, chainId, chatId) ==
    IF coll = <<>> THEN <<>>
    ELSE IF SameKey(Head(coll), tokenAddress, chainId, chatId) THEN Tail(coll)
    ELSE <<Head(coll)>> \o DeleteOne(Tail(coll), tokenAddress, chainId, chatId)

\* Variant: the delete filter takes address and chain as typed.
RemoveFromWatchlistAsGiven(coll, tokenAddress, chainId, chatId, dbOk) ==
    LET after == DeleteOne(coll, tokenAddress, chainId, chatId)
    IN  IF dbOk
        THEN [coll |-> after, removed |-> Len(after) < Len(coll)]
        ELSE [coll |-> coll, removed |-> FALSE]

RemoveFromWatchlist(coll, tokenAddress, chainId, chatId, dbOk) ==
    LET a == ToLowerCase(tokenAddress)
        c == ToLowerCase(chainId)
        after == DeleteOne(coll, a, c, chatId)
    IN  IF dbOk
        THEN [coll |-> after, removed |-> Len(after) < Len(coll)]
        ELSE [coll |-> coll, removed |-> FALSE]

\* updateOne: the first matching document gets the field set.
FirstMatch(coll, tokenAddress, chainId, chatId) ==
    LET hits == {i \in 1..Len(coll) : SameKey(coll[i], tokenAddress, chainId, chatId)}
    IN  IF hits = {} THEN 0 ELSE CHOOSE i \in hits : \A j \in hits : i <= j

\* Variant: the update sets initialPrice instead of lastAlertPrice.
UpdateLastAlertPriceInitial(coll, tokenAddress, chainId, chatId, newPrice, dbOk) ==
    LET i == FirstMatch(coll, ToLowerCase(tokenAddress), ToLowerCase(chainId), chatId)
    IN  IF dbOk /\ i # 0
        THEN [coll EXCEPT ![i].initialPrice = newPrice]
        ELSE coll

\* Variant: the update's filter leaves out chatId.
UpdateLastAlertPriceAnyChat(coll, tokenAddress, chainId, chatId, newPrice, dbOk) ==
    LET hits == {i \in 1..Len(coll) :
                    /\ coll[i].tokenAddress = ToLowerCase(tokenAddress)
                    /\ coll[i].chainId = ToLowerCase(chainId)}
        i == IF hits = {} THEN 0 ELSE CHOOSE k \in hits : \A j \in hits : k <= j
    IN  IF dbOk /\ i # 0
        THEN [coll EXCEPT ![i].lastAlertPrice = newPrice]
        ELSE coll

\* Variant: the update sets initialPrice along with lastAlertPrice.
UpdateLastAlertPriceBoth(coll, tokenAddress, chainId, chatId, newPrice, dbOk) ==
    LET i == FirstMatch(coll, ToLowerCase(tokenAddress), ToLowerCase(chainId), chatId)
    IN  IF dbOk /\ i # 0
        THEN [coll EXCEPT ![i].lastAlertPrice = newPrice, ![i].initialPrice = newPrice]
        ELSE coll

\* Variant: the update is an upsert, which inserts when nothing matches.
UpdateLastAlertPriceUpsert(coll, tokenAddress, chainId, chatId, newPrice, dbOk) ==
    LET i == FirstMatch(coll, ToLowerCase(tokenAddress), ToLowerCase(chainId), chatId)
    IN  IF ~dbOk THEN coll
        ELSE IF i # 0 THEN [coll EXCEPT ![i].lastAlertPrice = newPrice]
        ELSE Append(coll, NewEntry(tokenAddress, chainId, newPrice, 5, chatId))

UpdateLastAlertPrice(coll, tokenAddress, chainId, chatId, newPrice, dbOk) ==
    LET i == FirstMatch(coll, ToLowerCase(tokenAddress), ToLowerCase(chainId), chatId)
    IN  IF dbOk /\ i # 0
        THEN [coll EXCEPT ![i].lastAlertPrice = newPrice]
        ELSE coll

\* Variant: the update sets lastAlertPrice along with dropThreshold.
UpdateThresholdBothFields(coll, tokenAddress, chainId, chatId, newThreshold, dbOk) ==
    LET i == FirstMatch(coll, ToLowerCase(tokenAddress), ToLowerCase(chainId), chatId)
    IN  IF dbOk /\ i # 0
        THEN [coll |-> [coll EXCEPT ![i].dropThreshold = newThreshold,
                                    ![i].lastAlertPrice = newThreshold],
              updated |-> TRUE]
        ELSE [coll |-> coll, updated |-> FALSE]

UpdateThreshold(coll, tokenAddress, chainId, chatId, newThreshold, dbOk) ==
    LET i == FirstMatch(coll, ToLowerCase(tokenAddress), ToLowerCase(chainId), chatId)
    IN  IF dbOk /\ i # 0
        THEN [coll |-> [coll EXCEPT ![i].dropThreshold = newThreshold], updated |-> TRUE]
        ELSE [coll |-> coll, updated |-> FALSE]

\* loadWatchlist: a failed read is an empty list.
LoadWatchlist(coll, dbOk) == IF dbOk THEN coll ELSE <<>>

\* ------------------------------------------------------------ market data
\* The result map of getMultipleTokensData: the token data (here its priceUsd)
\* under the lowercased address of each token the upstream answered for.
MapHas(tokenDataMap, address) == \E r \in tokenDataMap : r.address = address

MapGet(tokenDataMap, address) ==
    (CHOOSE r \in tokenDataMap : r.address = address).priceUsd

\* results.set(addr, data)
MapSet(tokenDataMap, address, priceUsd) ==
    {r \in tokenDataMap : r.address # address} \cup
        {[address |-> address, priceUsd |-> priceUsd]}

\* What the upstream answers to one request: an error, or pairs for all the
\* addresses asked, or for all but the first; the pairs carry the address as
\* the upstream spells it.
ResponseKinds == {"error", "all", "butfirst"}

\* A pair of a response: the base token's address (<<>>: none), liquidity.usd
\* if the pair carries it, and priceUsd.
NoLiquidity == [missing |-> TRUE, usd |-> 0]
Pair(address, liquidity, priceUsd) ==
    [address |-> address, liquidity |-> liquidity, priceUsd |-> priceUsd]

Upstream(kind, addressList) ==
    LET answered == IF kind = "butfirst" THEN Tail(addressList) ELSE addressList
    IN  [failed |-> kind = "error",
         data |-> [k \in 1..Len(answered) |-> Pair(answered[k], NoLiquidity, 100)]]

\* pair.liquidity?.usd || 0
LiquidityUsd(pair) == IF pair.liquidity.missing THEN 0 ELSE pair.liquidity.usd

\* Variant: currentLiquidity >= bestLiquidity
BetterOrEqual(current, best) == LiquidityUsd(current) >= LiquidityUsd(best)

\* currentLiquidity > bestLiquidity
Better(current, best) == LiquidityUsd(current) > LiquidityUsd(best)

\* pairs.reduce(..., pairs[0])
RECURSIVE Reduce(_, _)
Reduce(pairs, best) ==
    IF pairs = <<>> THEN best
    ELSE Reduce(Tail(pairs), IF Better(Head(pairs), best) THEN Head(pairs) ELSE best)

BestPair(pairs) == Reduce(pairs, pairs[1])

\* getTokenData after the response: the best of all its pairs, or null.
GetTokenData(data) ==
    IF Len(data) > 0
    THEN [found |-> TRUE, priceUsd |-> BestPair(data).priceUsd]
    ELSE [found |-> FALSE, priceUsd |-> 0]

\* pairsByToken: the pairs that have a base token address, grouped in response
\* order under the lowercased address.
RECURSIVE PairsByToken(_, _)
PairsByToken(data, groups) ==
    IF data = <<>> THEN groups
    ELSE LET pair == Head(data)
             addr == ToLowerCase(pair.address)
             had  == IF addr \in DOMAIN groups THEN groups[addr] ELSE <<>>
         IN  PairsByToken(Tail(data),
                 IF pair.address = <<>> THEN groups
                 ELSE [k \in DOMAIN groups \cup {addr} |->
                          IF k = addr THEN Append(had, pair) ELSE groups[k]])

Min(a, b) == IF a < b THEN a ELSE b

\* Variant: the slice takes one address more than batchSize.
BatchInclusive(tokenAddresses, i) ==
    SubSeq(tokenAddresses, i + 1, Min(i + BatchSize + 1, Len(tokenAddresses)))

\* tokenAddresses.slice(i, i + batchSize)
Batch(tokenAddresses, i) ==
    SubSeq(tokenAddresses, i + 1, Min(i + BatchSize, Len(tokenAddresses)))

\* The best pair of each token of a response put into the results under the
\* lowercased address.
RECURSIVE SetBest(_, _, _)
SetBest(results, pairsByToken, keys) ==
    IF keys = {} THEN results
    ELSE LET addr == CHOOSE k \in keys : TRUE
         IN  SetBest(MapSet(results, addr, BestPair(pairsByToken[addr]).priceUsd),
                     pairsByToken, keys \ {addr})

SetAll(results, data) ==
    LET pairsByToken == PairsByToken(data, <<>>)
    IN  SetBest(results, pairsByToken, DOMAIN pairsByToken)

\* The loop of getMultipleTokensData from offset i on: the requests sent
\* and the results map, given the kind of answer to each request.
RECURSIVE BatchLoop(_, _, _, _, _)
BatchLoop(tokenAddresses, kinds, i, requests, results) ==
    IF i >= Len(tokenAddresses) THEN [requests |-> requests, results |-> results]
    ELSE LET addressList == Batch(tokenAddresses, i)
             response == Upstream(kinds[Len(requests) + 1], addressList)
         IN  BatchLoop(tokenAddresses, kinds, i + BatchSize,
                       Append(requests, addressList),
                       IF response.failed \/ Len(response.data) = 0
                       THEN results
                       ELSE SetAll(results, response.data))

GetMultipleTokensData(tokenAddresses, kinds) ==
    BatchLoop(tokenAddresses, kinds, 0, <<>>, {})

TokenDataMaps(addresses) ==
    {{[address |-> a, priceUsd |-> f[a]] : a \in DOMAIN f} :
        f \in UNION {[D -> SweepPrices] : D \in SUBSET addresses}}

\* ------------------------------------------------------------------- sweep
Abs(x) == IF x < 0 THEN -x ELSE x

\* ((currentPrice - lastAlertPrice) / lastAlertPrice) * 100 as the fraction num/den.
PercentChange(currentPrice, lastAlertPrice) ==
    [num |-> (currentPrice - lastAlertPrice) * 100, den |-> lastAlertPrice]

\* Variant: only a fall counts (-percentChange in place of Math.abs).
AbsChangeDropOnly(percentChange) ==
    [num |-> -percentChange.num, den |-> percentChange.den]

\* Math.abs of a fraction whose denominator is positive.
AbsChange(percentChange) ==
    [num |-> Abs(percentChange.num), den |-> percentChange.den]

\* Variant: absChange > entry.dropThreshold
ReachesThresholdStrict(absChange, dropThreshold) ==
    absChange.num > dropThreshold * absChange.den

\* Variant: the threshold read as a fraction (absChange >= dropThreshold / 100).
ReachesThresholdFraction(absChange, dropThreshold) ==
    absChange.num * 100 >= dropThreshold * absChange.den

\* absChange >= entry.dropThreshold
ReachesThreshold(absChange, dropThreshold) ==
    absChange.num >= dropThreshold * absChange.den

\* percentChange > 0
IsUp(percentChange) == percentChange.num > 0

\* Variant: lastAlertPrice < 0 || currentPrice < 0
SkipPricesStrict(lastAlertPrice, currentPrice) == lastAlertPrice < 0 \/ currentPrice < 0

\* lastAlertPrice <= 0 || currentPrice <= 0
SkipPrices(lastAlertPrice, currentPrice) == lastAlertPrice <= 0 \/ currentPrice <= 0

\* Variant: no grouping, every entry is a group of its own.
GroupByChainEach(entries) == [k \in 1..Len(entries) |-> <<entries[k]>>]

RECURSIVE ChainOrder(_)
ChainOrder(entries) ==
    IF entries = <<>> THEN <<>>
    ELSE LET rest == ChainOrder(Tail(entries))
             c == Head(entries).chainId
             NotC(x) == x # c
         IN  <<c>> \o SelectSeq(rest, NotC)

\* entriesByChain: one group per chainId, in order of first appearance.
GroupByChain(entries) ==
    LET chains == ChainOrder(entries)
    IN  [k \in 1..Len(chains) |->
            LET InChain(e) == e.chainId = chains[k]
            IN  SelectSeq(entries, InChain)]

NoMsg == [chatId |-> "", isUp |-> FALSE]
NoUpd == [tokenAddress |-> <<>>, chainId |-> <<>>, chatId |-> "", newPrice |-> 0]

Idle ==
    [pc |-> "idle", groups |-> <<>>, ei |-> 0, tokenDataMap |-> {},
     last |-> "none", msg |-> NoMsg, sent |-> "none", upd |-> NoUpd]

\* A checkPrices() call that has returned.
Done == [Idle EXCEPT !.pc = "done"]

\* The entry a sweep is working on, and the price fetched for it.
CurrentEntry(sw) == Head(sw.groups)[sw.ei]
CurrentPrice(sw) == MapGet(sw.tokenDataMap, ToLowerCase(CurrentEntry(sw).tokenAddress))

\* The message sendPriceAlert sends: its recipient and its direction.
AlertMessage(entry, percentChange) ==
    [chatId |-> entry.chatId, isUp |-> IsUp(percentChange)]

\* Variant: the update is called with the entry's old lastAlertPrice.
AlertUpdateStale(entry, currentPrice) ==
    [tokenAddress |-> entry.tokenAddress, chainId |-> entry.chainId,
     chatId |-> entry.chatId, newPrice |-> entry.lastAlertPrice]

\* The arguments of the updateLastAlertPrice call after an alert.
AlertUpdate(entry, currentPrice) ==
    [tokenAddress |-> entry.tokenAddress, chainId |-> entry.chainId,
     chatId |-> entry.chatId, newPrice |-> currentPrice]

\* The loops' continuation after an entry: the next entry of the group, else
\* the next group's fetch, else the end of the sweep.
Advance(sw, outcome) ==
    IF sw.ei < Len(Head(sw.groups))
    THEN [sw EXCEPT !.pc = "eval", !.ei = sw.ei + 1, !.last = outcome,
                    !.msg = NoMsg, !.sent = "none", !.upd = NoUpd]
    ELSE IF Len(sw.groups) > 1
    THEN [sw EXCEPT !.pc = "fetch", !.groups = Tail(sw.groups), !.ei = 0,
                    !.tokenDataMap = {}, !.last = outcome,
                    !.msg = NoMsg, !.sent = "none", !.upd = NoUpd]
    ELSE Done

\* Variant: tokenData is used without the check for undefined, and reading
\* priceUsd of a missing entry ends the sweep with a TypeError.
EvaluateEntryUnchecked(sw, theBot) ==
    LET entry == CurrentEntry(sw)
        address == ToLowerCase(entry.tokenAddress)
    IN  IF ~MapHas(sw.tokenDataMap, address) THEN Done
        ELSE LET currentPrice == MapGet(sw.tokenDataMap, address)
                 percentChange == PercentChange(currentPrice, entry.lastAlertPrice)
             IN  IF SkipPrices(entry.lastAlertPrice, currentPrice) THEN Advance(sw, "skip")
                 ELSE IF ReachesThreshold(AbsChange(percentChange), entry.dropThreshold)
                 THEN IF theBot = "null"
                      THEN [sw EXCEPT !.pc = "write", !.last = "fire",
                                      !.upd = AlertUpdate(entry, currentPrice)]
                      ELSE [sw EXCEPT !.pc = "send", !.last = "fire",
                                      !.msg = AlertMessage(entry, percentChange)]
                 ELSE Advance(sw, "nofire")

\* One entry of the inner loop, up to the next await. Without a bot
\* sendPriceAlert returns at once and the update is called.
EvaluateEntry(sw, theBot) ==
    LET entry == CurrentEntry(sw)
        address == ToLowerCase(entry.tokenAddress)
    IN  IF ~MapHas(sw.tokenDataMap, address) THEN Advance(sw, "nodata")
        ELSE LET currentPrice == MapGet(sw.tokenDataMap, address)
                 lastAlertPrice == entry.lastAlertPrice
             IN  IF SkipPrices(lastAlertPrice, currentPrice) THEN Advance(sw, "skip")
                 ELSE LET percentChange == PercentChange(currentPrice, lastAlertPrice)
                          absChange == AbsChange(percentChange)
                      IN  IF ReachesThreshold(absChange, entry.dropThreshold)
                          THEN IF theBot = "null"
                               THEN [sw EXCEPT !.pc = "write", !.last = "fire",
                                               !.upd = AlertUpdate(entry, currentPrice)]
                               ELSE [sw EXCEPT !.pc = "send", !.last = "fire",
                                               !.msg = AlertMessage(entry, percentChange)]
                          ELSE Advance(sw, "nofire")

\* --------------------------------------------------------------- scheduler
FreeSweeps == {s \in SweepIds : sweeps[s].pc = "idle"}

\* A call of checkPrices(): it runs up to its first await, the listing.
StartSweep(s) ==
    /\ events < MaxEvents
    /\ events' = events + 1
    /\ sweeps' = [sweeps EXCEPT ![s] = [Idle EXCEPT !.pc = "list"]]

StartMonitor ==
    /\ warmups < MaxWarmups
    /\ bot' = "bot"
    /\ warmups' = warmups + 1
    /\ monitorInterval' = 1
    /\ UNCHANGED <<store, sweeps, events, harness>>

\* Variant: stopping also ends the sweeps in flight.
StopMonitorAborts ==
    /\ monitorInterval' = IF monitorInterval # 0 THEN 0 ELSE monitorInterval
    /\ sweeps' = [s \in SweepIds |-> IF sweeps[s].pc \in {"idle", "done"}
                                     THEN sweeps[s] ELSE Done]
    /\ UNCHANGED <<store, warmups, bot, events, harness>>

StopMonitor ==
    /\ monitorInterval' = IF monitorInterval # 0 THEN 0 ELSE monitorInterval
    /\ UNCHANGED <<store, warmups, bot, sweeps, events, harness>>

\* The setTimeout callback of a start.
WarmupFire ==
    /\ warmups > 0
    /\ FreeSweeps # {}
    /\ warmups' = warmups - 1
    /\ StartSweep(CHOOSE s \in FreeSweeps : \A r \in FreeSweeps : s <= r)
    /\ UNCHANGED <<store, monitorInterval, bot, harness>>

\* The setInterval callback.
IntervalTick ==
    /\ monitorInterval # 0
    /\ FreeSweeps # {}
    /\ StartSweep(CHOOSE s \in FreeSweeps : \A r \in FreeSweeps : s <= r)
    /\ UNCHANGED <<store, monitorInterval, warmups, bot, harness>>

\* ------------------------------------------------------------ sweep steps
\* getAllWatchlist returns; the entries are grouped and the first chain's
\* batched fetch is called.
\* Variant: the fetch loop is entered whatever the length of the listing.
ListResumeAlwaysFetch(sw, entries) ==
    [sw EXCEPT !.pc = "fetch",
               !.groups = IF Len(entries) = 0 THEN <<<<>>>> ELSE GroupByChain(entries)]

ListResume(sw, entries) ==
    IF Len(entries) = 0 THEN Done
    ELSE [sw EXCEPT !.pc = "fetch", !.groups = GroupByChain(entries)]

\* Variant: a failed read is not caught and rejects the checkPrices() call.
ListOutcomeUncaught(sw, coll, dbOk) ==
    IF dbOk THEN ListResume(sw, coll) ELSE [Done EXCEPT !.last = "rejected"]

\* The sweep after its listing: loadWatchlist's result, then the grouping.
ListOutcome(sw, coll, dbOk) == ListResume(sw, LoadWatchlist(coll, dbOk))

\* The listing returns: the read reached the database (dbOk) or failed.
ListStep(s, dbOk) ==
    /\ sweeps[s].pc = "list"
    /\ sweeps' = [sweeps EXCEPT ![s] = ListOutcome(sweeps[s], store, dbOk)]
    /\ UNCHANGED <<store, monitorInterval, warmups, bot, events>>

ListReturn(s) == \E dbOk \in BOOLEAN : ListStep(s, dbOk)

GroupAddresses(sw) ==
    {ToLowerCase(Head(sw.groups)[i].tokenAddress) : i \in 1..Len(Head(sw.groups))}

\* Variant: a fetch that brought nothing ends the sweep (its error is not caught).
FetchResumeThrows(sw, tokenDataMap) ==
    IF tokenDataMap = {} THEN Done
    ELSE [sw EXCEPT !.pc = "eval", !.ei = 1, !.tokenDataMap = tokenDataMap]

\* getMultipleTokensData returns the map for the current chain.
FetchResume(sw, tokenDataMap) ==
    [sw EXCEPT !.pc = "eval", !.ei = 1, !.tokenDataMap = tokenDataMap]

FetchReturn(s) ==
    /\ sweeps[s].pc = "fetch"
    /\ \E m \in TokenDataMaps(GroupAddresses(sweeps[s])) :
        sweeps' = [sweeps EXCEPT ![s] = FetchResume(sweeps[s], m)]
    /\ UNCHANGED <<store, monitorInterval, warmups, bot, events>>

Evaluate(s) ==
    /\ sweeps[s].pc = "eval"
    /\ sweeps' = [sweeps EXCEPT ![s] = EvaluateEntry(sweeps[s], bot)]
    /\ UNCHANGED <<store, monitorInterval, warmups, bot, events>>

\* Variant: a rejected sendMessage is not caught and ends the sweep.
SendResumeThrows(sw, delivered) ==
    IF delivered
    THEN [sw EXCEPT !.pc = "write", !.msg = NoMsg, !.sent = "ok",
                    !.upd = AlertUpdate(CurrentEntry(sw), CurrentPrice(sw))]
    ELSE Done

\* bot.sendMessage settles, delivered or not (a rejection is caught and logged);
\* the sweep then calls updateLastAlertPrice.
SendResume(sw, delivered) ==
    [sw EXCEPT !.pc = "write", !.msg = NoMsg,
               !.sent = IF delivered THEN "ok" ELSE "failed",
               !.upd = AlertUpdate(CurrentEntry(sw), CurrentPrice(sw))]

SendReturn(s) ==
    /\ sweeps[s].pc = "send"
    /\ \E delivered \in BOOLEAN :
        sweeps' = [sweeps EXCEPT ![s] = SendResume(sweeps[s], delivered)]
    /\ UNCHANGED <<store, monitorInterval, warmups, bot, events>>

\* Variant: a failed write is not caught and ends the sweep.
WriteResumeThrows(sw, dbOk) == IF dbOk THEN Advance(sw, "written") ELSE Done

\* The inner loop goes on after updateLastAlertPrice has returned.
WriteResume(sw, dbOk) == Advance(sw, IF dbOk THEN "written" ELSE "writefailed")

\* Variant: the write is made only if the stored reference is still the one
\* the sweep listed.
WriteStepChecked(s, dbOk) ==
    LET u == sweeps[s].upd
        i == FirstMatch(store, u.tokenAddress, u.chainId, u.chatId)
        current == i # 0 /\ store[i].lastAlertPrice = CurrentEntry(sweeps[s]).lastAlertPrice
    IN  /\ sweeps[s].pc = "write"
        /\ store' = UpdateLastAlertPrice(store, u.tokenAddress, u.chainId,
                                         u.chatId, u.newPrice, dbOk /\ current)
        /\ sweeps' = [sweeps EXCEPT ![s] = WriteResume(sweeps[s], dbOk)]
        /\ UNCHANGED <<monitorInterval, warmups, bot, events>>

\* updateLastAlertPrice takes effect (or fails, which is logged) and returns.
WriteStep(s, dbOk) ==
    LET u == sweeps[s].upd
    IN  /\ sweeps[s].pc = "write"
        /\ store' = UpdateLastAlertPrice(store, u.tokenAddress, u.chainId,
                                         u.chatId, u.newPrice, dbOk)
        /\ sweeps' = [sweeps EXCEPT ![s] = WriteResume(sweeps[s], dbOk)]
        /\ UNCHANGED <<monitorInterval, warmups, bot, events>>

WriteReturn(s) == \E dbOk \in BOOLEAN : WriteStep(s, dbOk)

\* ----------------------------------------------------------- chat commands
\* What getTokenData and the insert can answer to an add: no token data, or
\* token data with a price and an insert that reaches the database or not.
AddOutcomes ==
    {[found |-> FALSE, priceUsd |-> 0, dbOk |-> TRUE]} \cup
    {[found |-> TRUE, priceUsd |-> p, dbOk |-> ok] : p \in AddPrices, ok \in BOOLEAN}

NoReply == [text |-> "none", chatId |-> 0, chainId |-> <<>>, tokenAddress |-> <<>>]

\* The answer a command sends, with the arguments it was given.
Reply(text, chatId, chainId, tokenAddress) ==
    [text |-> text, chatId |-> chatId, chainId |-> chainId, tokenAddress |-> tokenAddress]

\* The steps processAdd and handleAddDirect share: fetch the token, insert, answer.
AddSteps(chatId, chainId, tokenAddress, threshold, r) ==
    IF ~r.found
    THEN /\ store' = store
         /\ reply' = Reply("Token not found", chatId, chainId, tokenAddress)
    ELSE LET res == AddToWatchlist(store, tokenAddress, chainId, r.priceUsd,
                                   threshold, StringOf(chatId), r.dbOk)
         IN  /\ store' = res.coll
             /\ reply' = Reply(IF res.added THEN "Token Added"
                               ELSE "already in your watchlist",
                               chatId, chainId, tokenAddress)

\* processAdd (the interactive flow's last step).
ProcessAdd(chatId, chainId, tokenAddress, threshold) ==
    /\ events < MaxEvents
    /\ \E r \in AddOutcomes : AddSteps(chatId, chainId, tokenAddress, threshold, r)
    /\ events' = events + 1
    /\ UNCHANGED <<monitorInterval, warmups, bot, sweeps, harness>>

\* /add <chain> <address> [threshold]
HandleAddDirect(chatId, chainInput, tokenAddress, thresholdText) ==
    LET chainId == ChainAlias(ToLowerCase(chainInput))
        threshold == IF thresholdText # "" THEN ParseFloat(thresholdText)
                     ELSE [nan |-> FALSE, val |-> 5]
    IN  /\ events < MaxEvents
        /\ IF chainId = Undefined
           THEN /\ store' = store
                /\ reply' = Reply("Unknown chain", chatId, chainInput, tokenAddress)
           ELSE IF InvalidThreshold(threshold)
           THEN /\ store' = store
                /\ reply' = Reply("Threshold must be a number", chatId, chainId, tokenAddress)
           ELSE \E r \in AddOutcomes :
                    AddSteps(chatId, chainId, tokenAddress, threshold.val, r)
        /\ events' = events + 1
        /\ UNCHANGED <<monitorInterval, warmups, bot, sweeps, harness>>

ProcessRemove(chatId, chainId, tokenAddress) ==
    /\ events < MaxEvents
    /\ \E dbOk \in BOOLEAN :
        LET res == RemoveFromWatchlist(store, tokenAddress, chainId, StringOf(chatId), dbOk)
        IN  /\ store' = res.coll
            /\ reply' = Reply(IF res.removed THEN "Token removed"
                              ELSE "Token not found in your watchlist",
                              chatId, chainId, tokenAddress)
    /\ events' = events + 1
    /\ UNCHANGED <<monitorInterval, warmups, bot, sweeps, harness>>

ProcessThreshold(chatId, chainId, tokenAddress, newThreshold) ==
    /\ events < MaxEvents
    /\ \E dbOk \in BOOLEAN :
        LET res == UpdateThreshold(store, tokenAddress, chainId, StringOf(chatId),
                                   newThreshold, dbOk)
        IN  /\ store' = res.coll
            /\ reply' = Reply(IF res.updated THEN "Alert threshold updated"
                              ELSE "Token not found in your watchlist",
                              chatId, chainId, tokenAddress)
    /\ events' = events + 1
    /\ UNCHANGED <<monitorInterval, warmups, bot, sweeps, harness>>

\* ------------------------------------------------------------ specification
\* Outside the timed and scenario runs: no time kept, no getMultipleTokensData
\* call looked into.
NoClock == [now |-> 0, started |-> 0, intervalMs |-> 0, intervalDue |-> 0, warmupDue |-> <<>>]
NoBatch == [tokenAddresses |-> <<>>, responses |-> <<>>, returned |-> FALSE,
            requests |-> <<>>, results |-> {}]

\* let client = null; let db = null; no connectDB or disconnectDB call in
\* flight. made counts the MongoClient objects created, which names them.
NoDatabase ==
    [client |-> 0, db |-> 0, made |-> 0, pc |-> "idle", attempt |-> 0,
     lastError |-> 0, closing |-> FALSE]

\* new Map(): no chat has a conversation; no state object exists and no
\* callback handler is suspended.
NoConversation == [map |-> [chatId \in ChatIds |-> 0], objects |-> <<>>, awaiting |-> {}]

Init ==
    /\ store = <<>>
    /\ monitorInterval = 0
    /\ warmups = 0
    /\ bot = "null"
    /\ sweeps = [s \in SweepIds |-> Idle]
    /\ reply = NoReply
    /\ events = 0
    /\ script = <<>>
    /\ alerts = 0
    /\ clock = NoClock
    /\ calls = <<>>
    /\ batch = NoBatch
    /\ conversationState = NoConversation
    /\ database = NoDatabase

Command ==
    \E chatId \in ChatIds, tokenAddress \in AddressInputs :
        \/ \E chainId \in InteractiveChainInputs, threshold \in Thresholds :
            ProcessAdd(chatId, chainId, tokenAddress, threshold)
        \/ \E chainInput \in DirectChainInputs, thresholdText \in ThresholdTexts :
            HandleAddDirect(chatId, chainInput, tokenAddress, thresholdText)
        \/ \E chainId \in InteractiveChainInputs :
            ProcessRemove(chatId, chainId, tokenAddress)
        \/ \E chainId \in InteractiveChainInputs, newThreshold \in Thresholds :
            ProcessThreshold(chatId, chainId, tokenAddress, newThreshold)

\* A step of the monitor sends no command answer.
Quiet == reply' = NoReply

Next ==
    \/ StartMonitor /\ Quiet
    \/ StopMonitor /\ Quiet
    \/ WarmupFire /\ Quiet
    \/ IntervalTick /\ Quiet
    \/ \E s \in SweepIds : ListReturn(s) /\ Quiet /\ UNCHANGED harness
    \/ \E s \in SweepIds : FetchReturn(s) /\ Quiet /\ UNCHANGED harness
    \/ \E s \in SweepIds : Evaluate(s) /\ Quiet /\ UNCHANGED harness
    \/ \E s \in SweepIds : SendReturn(s) /\ Quiet /\ UNCHANGED harness
    \/ \E s \in SweepIds : WriteReturn(s) /\ Quiet /\ UNCHANGED harness
    \/ Command

Spec == Init /\ [][Next]_vars

\* ------------------------------------------------------------------ scenario
\* The recursive alert sequence: one entry of chat 1 with reference 1.00 and
\* threshold 5, alone or beside chat 2's entry for the same token, the monitor
\* running, and sweeps one after the other that fetch the scripted prices.
Tracked ==
    [tokenAddress |-> <<"a", "b">>, chainId |-> bsc, dropThreshold |-> 5,
     lastAlertPrice |-> 100, initialPrice |-> 100, addedAt |-> 0, chatId |-> "1"]

Other(threshold) == [Tracked EXCEPT !.chatId = "2", !.dropThreshold = threshold]

InitC4 ==
    /\ store \in {<<Tracked>>} \cup
                {<<Tracked, Other(t)>> : t \in Thresholds} \cup
                {<<Other(t), Tracked>> : t \in Thresholds}
    /\ monitorInterval = 1
    /\ warmups = 0
    /\ bot = "bot"
    /\ sweeps = [s \in SweepIds |-> Idle]
    /\ reply = NoReply
    /\ events = 0
    /\ script = ScriptedPrices
    /\ alerts = 0
    /\ clock = NoClock
    /\ calls = <<>>
    /\ batch = NoBatch
    /\ conversationState = NoConversation
    /\ database = NoDatabase

NoSweepRunning == \A s \in SweepIds : sweeps[s].pc \in {"idle", "done"}

\* The interval fires after the previous sweep has returned.
TickC4 ==
    /\ monitorInterval # 0
    /\ script # <<>>
    /\ NoSweepRunning
    /\ sweeps' = [sweeps EXCEPT ![1] = [Idle EXCEPT !.pc = "list"]]
    /\ UNCHANGED <<store, monitorInterval, warmups, bot, events, harness>>

\* The upstream answers with the next scripted price for every token asked.
FetchScripted(s) ==
    /\ sweeps[s].pc = "fetch"
    /\ script # <<>>
    /\ sweeps' = [sweeps EXCEPT ![s] = FetchResume(sweeps[s],
            {[address |-> a, priceUsd |-> Head(script)] : a \in GroupAddresses(sweeps[s])})]
    /\ script' = Tail(script)
    /\ UNCHANGED <<store, monitorInterval, warmups, bot, events, alerts, clock, calls, batch, database, conversationState>>

\* The evaluation, counting the alerts raised for chat 1.
EvaluateCounted(s) ==
    /\ Evaluate(s)
    /\ alerts' = IF sweeps'[s].pc = "send" /\ sweeps'[s].msg.chatId = "1"
                 THEN alerts + 1 ELSE alerts
    /\ UNCHANGED <<script, clock, calls, batch, database, conversationState>>

\* The reference write reaches the database.
WriteApplied(s) == WriteStep(s, TRUE)

NextC4 ==
    \/ TickC4 /\ Quiet
    \/ ListReturn(1) /\ Quiet /\ UNCHANGED harness
    \/ FetchScripted(1) /\ Quiet
    \/ EvaluateCounted(1) /\ Quiet
    \/ SendReturn(1) /\ Quiet /\ UNCHANGED harness
    \/ WriteApplied(1) /\ Quiet /\ UNCHANGED harness

SpecC4 == InitC4 /\ [][NextC4]_vars

\* ----------------------------------------------------------- failing writes
\* The scenario's entries with the monitor running, sweeps one after the
\* other that all fetch 0.94, and reference writes that reach the database or
\* fail; calls logs the writes, each with whether it failed.
RepeatedPrices == <<94, 94, 94>>

InitWrite ==
    /\ store \in {<<Tracked>>} \cup
                {<<Tracked, Other(t)>> : t \in Thresholds} \cup
                {<<Other(t), Tracked>> : t \in Thresholds}
    /\ monitorInterval = 1
    /\ warmups = 0
    /\ bot = "bot"
    /\ sweeps = [s \in SweepIds |-> Idle]
    /\ reply = NoReply
    /\ events = 0
    /\ script = RepeatedPrices
    /\ alerts = 0
    /\ clock = NoClock
    /\ calls = <<>>
    /\ batch = NoBatch
    /\ conversationState = NoConversation
    /\ database = NoDatabase

WriteLogged(s) ==
    /\ \E dbOk \in BOOLEAN :
        /\ WriteStep(s, dbOk)
        /\ calls' = Append(calls, [op |-> "write", sweep |-> s, upd |-> sweeps[s].upd,
                                    dbOk |-> dbOk])
    /\ UNCHANGED <<script, alerts, clock, batch, database, conversationState>>

NextWrite ==
    \/ TickC4 /\ Quiet
    \/ ListReturn(1) /\ Quiet /\ UNCHANGED harness
    \/ FetchScripted(1) /\ Quiet
    \/ EvaluateCounted(1) /\ Quiet
    \/ SendReturn(1) /\ Quiet /\ UNCHANGED harness
    \/ WriteLogged(1) /\ Quiet

SpecWrite == InitWrite /\ [][NextWrite]_vars

\* ---------------------------------------------------------------------- time
\* A second passes; a timer that is due fires before time goes on.
TimePasses ==
    /\ clock.now + 1000 <= MaxTime
    /\ \A k \in 1..Len(clock.warmupDue) : clock.warmupDue[k] > clock.now
    /\ monitorInterval # 0 => clock.intervalDue > clock.now
    /\ clock' = [clock EXCEPT !.now = @ + 1000]
    /\ UNCHANGED <<store, monitorInterval, warmups, bot, sweeps, reply, events,
                   script, alerts, calls, batch, database, conversationState>>

\* --------------------------------------------------------- overlapping sweeps
\* The scenario's entries with the monitor running and an upstream price
\* that moves from 0.95 to 1.06: ticks that do not wait for the sweep in
\* flight, the fetches answered in the order they are made, and the writes
\* logged in calls.
MovingPrices == <<95, 106>>

InitOverlap ==
    /\ store \in {<<Tracked>>} \cup
                {<<Tracked, Other(t)>> : t \in Thresholds} \cup
                {<<Other(t), Tracked>> : t \in Thresholds}
    /\ monitorInterval = 1
    /\ warmups = 0
    /\ bot = "bot"
    /\ sweeps = [s \in SweepIds |-> Idle]
    /\ reply = NoReply
    /\ events = 0
    /\ script = MovingPrices
    /\ alerts = 0
    /\ clock = NoClock
    /\ calls = <<>>
    /\ batch = NoBatch
    /\ conversationState = NoConversation
    /\ database = NoDatabase

NextOverlap ==
    \/ IntervalTick /\ Quiet
    \/ \E s \in SweepIds : ListReturn(s) /\ Quiet /\ UNCHANGED harness
    \/ \E s \in SweepIds : FetchScripted(s) /\ Quiet
    \/ \E s \in SweepIds : Evaluate(s) /\ Quiet /\ UNCHANGED harness
    \/ \E s \in SweepIds : SendReturn(s) /\ Quiet /\ UNCHANGED harness
    \/ \E s \in SweepIds : WriteLogged(s) /\ Quiet

SpecOverlap == InitOverlap /\ [][NextOverlap]_vars

\* ------------------------------------------------------- stopping in flight
\* The scenario of the failing writes with stopMonitor called at any moment;
\* calls logs the stop and, after it, the alerts sent and the writes made.
InitStop == InitWrite

StopLogged ==
    /\ monitorInterval # 0
    /\ StopMonitor
    /\ Quiet

\* The log of a stopped run: the step of the sweep, from the stop on.
LogStopped(step) == IF monitorInterval = 0 THEN Append(calls, step) ELSE calls

SendAfterStop(s) ==
    /\ SendReturn(s)
    /\ calls' = LogStopped([op |-> "send", sweep |-> s, upd |-> sweeps'[s].upd,
                            dbOk |-> sweeps'[s].sent = "ok"])
    /\ UNCHANGED <<script, alerts, clock, batch, database, conversationState>>

WriteAfterStop(s) ==
    /\ \E dbOk \in BOOLEAN :
        /\ WriteStep(s, dbOk)
        /\ calls' = LogStopped([op |-> "write", sweep |-> s, upd |-> sweeps[s].upd,
                                dbOk |-> dbOk])
    /\ UNCHANGED <<script, alerts, clock, batch, database, conversationState>>

\* checkPrices() call s resumes from the await it is suspended at.
SweepStep(s) ==
    \/ ListReturn(s) /\ Quiet /\ UNCHANGED harness
    \/ FetchScripted(s) /\ Quiet
    \/ EvaluateCounted(s) /\ Quiet
    \/ SendAfterStop(s) /\ Quiet
    \/ WriteAfterStop(s) /\ Quiet

NextStop ==
    \/ TickC4 /\ Quiet
    \/ StopLogged
    \/ SweepStep(1)

SpecStop == InitStop /\ [][NextStop]_vars

\* Every awaited call of a sweep returns or fails in the end.
FairStop == SpecStop /\ WF_vars(SweepStep(1))

\* ------------------------------------------------------------- store calls
\* The keyed store functions called directly, with address and chain in any
\* letter case, as time goes by; calls holds the last call, its arguments and
\* what it returned.
StoreAddressInputs == {<<"a", "b">>, <<"a", "B">>, <<"A", "B">>}
StoreChainInputs == {bsc, <<"B", "s", "c">>, <<"B", "S", "C">>}
StoreChatIds == {"1", "2"}

StoreCall(op, tokenAddress, chainId, chatId, value, dbOk, result) ==
    <<[op |-> op, tokenAddress |-> tokenAddress, chainId |-> chainId, chatId |-> chatId,
       value |-> value, dbOk |-> dbOk, result |-> result]>>

StoreFrame ==
    /\ events < MaxEvents
    /\ events' = events + 1
    /\ UNCHANGED <<monitorInterval, warmups, bot, sweeps, reply, script, alerts, clock, batch, database, conversationState>>

StoreAdd(tokenAddress, chainId, chatId, dbOk) ==
    LET res == AddToWatchlist(store, tokenAddress, chainId, 100, 5, chatId, dbOk)
    IN  /\ store' = res.coll
        /\ calls' = StoreCall("add", tokenAddress, chainId, chatId, 100, dbOk, res.added)
        /\ StoreFrame

StoreRemove(tokenAddress, chainId, chatId, dbOk) ==
    LET res == RemoveFromWatchlist(store, tokenAddress, chainId, chatId, dbOk)
    IN  /\ store' = res.coll
        /\ calls' = StoreCall("remove", tokenAddress, chainId, chatId, 0, dbOk, res.removed)
        /\ StoreFrame

StoreUpdateLastAlertPrice(tokenAddress, chainId, chatId, newPrice, dbOk) ==
    /\ store' = UpdateLastAlertPrice(store, tokenAddress, chainId, chatId, newPrice, dbOk)
    /\ calls' = StoreCall("updateLastAlertPrice", tokenAddress, chainId, chatId,
                          newPrice, dbOk, FALSE)
    /\ StoreFrame

StoreUpdateThreshold(tokenAddress, chainId, chatId, newThreshold, dbOk) ==
    LET res == UpdateThreshold(store, tokenAddress, chainId, chatId, newThreshold, dbOk)
    IN  /\ store' = res.coll
        /\ calls' = StoreCall("updateThreshold", tokenAddress, chainId, chatId,
                              newThreshold, dbOk, res.updated)
        /\ StoreFrame

\* The calls that follow are made at a later time.
StoreLater ==
    /\ clock.now = 0
    /\ clock' = [clock EXCEPT !.now = MaxTime]
    /\ UNCHANGED <<store, monitorInterval, warmups, bot, sweeps, reply, events,
                   script, alerts, calls, batch, database, conversationState>>

NextStore ==
    \E tokenAddress \in StoreAddressInputs, chainId \in StoreChainInputs,
       chatId \in StoreChatIds, dbOk \in BOOLEAN :
        \/ StoreAdd(tokenAddress, chainId, chatId, dbOk)
        \/ StoreRemove(tokenAddress, chainId, chatId, dbOk)
        \/ StoreUpdateLastAlertPrice(tokenAddress, chainId, chatId, 95, dbOk)
        \/ StoreUpdateThreshold(tokenAddress, chainId, chatId, 10, dbOk)
        \/ StoreLater

SpecStore == Init /\ [][NextStore]_vars

\* ------------------------------------------------------------ failing reads
\* The monitor running over a watchlist of one or two entries: ticks that
\* overlap, listings that reach the database or fail, an upstream that quotes
\* 0.95 for every token, and the sweeps' other steps; calls logs the ticks and
\* the listings with whether the read failed.
InitRead ==
    /\ store \in {<<Tracked>>, <<Tracked, Other(10)>>}
    /\ monitorInterval = 1
    /\ warmups = 0
    /\ bot = "bot"
    /\ sweeps = [s \in SweepIds |-> Idle]
    /\ reply = NoReply
    /\ events = 0
    /\ script = <<>>
    /\ alerts = 0
    /\ clock = NoClock
    /\ calls = <<>>
    /\ batch = NoBatch
    /\ conversationState = NoConversation
    /\ database = NoDatabase

ListLogged(s) ==
    /\ \E dbOk \in BOOLEAN :
        /\ ListStep(s, dbOk)
        /\ calls' = Append(calls, [op |-> "list", sweep |-> s, dbOk |-> dbOk])
    /\ UNCHANGED <<script, alerts, clock, batch, database, conversationState>>

TickLogged ==
    /\ monitorInterval # 0
    /\ FreeSweeps # {}
    /\ LET s == CHOOSE f \in FreeSweeps : \A r \in FreeSweeps : f <= r
       IN  /\ StartSweep(s)
           /\ calls' = Append(calls, [op |-> "tick", sweep |-> s, dbOk |-> TRUE])
    /\ UNCHANGED <<store, monitorInterval, warmups, bot, script, alerts, clock, batch, database, conversationState>>

\* The upstream answers 0.95 for every token asked.
FetchQuoted(s) ==
    /\ sweeps[s].pc = "fetch"
    /\ sweeps' = [sweeps EXCEPT ![s] = FetchResume(sweeps[s],
            {[address |-> a, priceUsd |-> 95] : a \in GroupAddresses(sweeps[s])})]
    /\ UNCHANGED <<store, monitorInterval, warmups, bot, events>>

NextRead ==
    \/ TickLogged /\ Quiet
    \/ \E s \in SweepIds : ListLogged(s) /\ Quiet
    \/ \E s \in SweepIds : FetchQuoted(s) /\ Quiet /\ UNCHANGED harness
    \/ \E s \in SweepIds : Evaluate(s) /\ Quiet /\ UNCHANGED harness
    \/ \E s \in SweepIds : SendReturn(s) /\ Quiet /\ UNCHANGED harness
    \/ \E s \in SweepIds : WriteReturn(s) /\ Quiet /\ UNCHANGED harness

SpecRead == InitRead /\ [][NextRead]_vars

\* ------------------------------------------------------- a settling price
\* The scenario's entries with the monitor running for good and an upstream
\* price that is 0.98 for the first fetches and stays at 0.94 from then on;
\* sweeps follow one another without end, and the listing, the notifier and
\* the reference write each return, having succeeded or failed. calls holds
\* the last of these calls and what it returned.
SettlingPrices == [k \in 1..MaxEvents |-> IF k < MaxEvents THEN 98 ELSE 94]

InitLive ==
    /\ store \in {<<Tracked>>} \cup
                {<<Tracked, Other(t)>> : t \in Thresholds} \cup
                {<<Other(t), Tracked>> : t \in Thresholds}
    /\ monitorInterval = 1
    /\ warmups = 0
    /\ bot = "bot"
    /\ sweeps = [s \in SweepIds |-> Idle]
    /\ reply = NoReply
    /\ events = 0
    /\ script = SettlingPrices
    /\ alerts = 0
    /\ clock = NoClock
    /\ calls = <<>>
    /\ batch = NoBatch
    /\ conversationState = NoConversation
    /\ database = NoDatabase

Returned(op, ok) ==
    /\ calls' = <<[op |-> op, dbOk |-> ok]>>
    /\ UNCHANGED <<script, alerts, clock, batch, database, conversationState>>

\* The interval fires after the previous sweep has returned.
TickLive ==
    /\ monitorInterval # 0
    /\ NoSweepRunning
    /\ sweeps' = [sweeps EXCEPT ![1] = [Idle EXCEPT !.pc = "list"]]
    /\ UNCHANGED <<store, monitorInterval, warmups, bot, events, harness>>

ListLive(s) == \E dbOk \in BOOLEAN : ListStep(s, dbOk) /\ Returned("list", dbOk)

\* The upstream answers with the scripted price, the last one from then on.
FetchSettling(s) ==
    /\ sweeps[s].pc = "fetch"
    /\ sweeps' = [sweeps EXCEPT ![s] = FetchResume(sweeps[s],
            {[address |-> a, priceUsd |-> Head(script)] : a \in GroupAddresses(sweeps[s])})]
    /\ script' = IF Len(script) > 1 THEN Tail(script) ELSE script
    /\ UNCHANGED <<store, monitorInterval, warmups, bot, events, alerts, clock, calls, batch, database, conversationState>>

SendLive(s) == SendReturn(s) /\ Returned("send", sweeps'[s].sent = "ok")

WriteLive(s) == \E dbOk \in BOOLEAN : WriteStep(s, dbOk) /\ Returned("write", dbOk)

\* checkPrices() call s resumes from the await it is suspended at.
SweepResumes(s) ==
    \/ ListLive(s) /\ Quiet
    \/ FetchSettling(s) /\ Quiet
    \/ Evaluate(s) /\ Quiet /\ UNCHANGED harness
    \/ SendLive(s) /\ Quiet
    \/ WriteLive(s) /\ Quiet

NextLive ==
    \/ TickLive /\ Quiet
    \/ SweepResumes(1)

SpecLive == InitLive /\ [][NextLive]_vars

\* The interval keeps firing and every awaited call returns in the end.
FairLive == SpecLive /\ WF_vars(TickLive /\ Quiet) /\ WF_vars(SweepResumes(1))

\* ------------------------------------------------------------- single sweep
\* One sweep over a watchlist of one to three entries on two chains, with the
\* fetch calls and the evaluations logged in calls.
Listed(tokenAddress, chainId, chatId) ==
    NewEntry(tokenAddress, chainId, 100, 5, chatId)

ListedEntries ==
    {Listed(<<"a", "b">>, bsc, "1"), Listed(<<"a", "b">>, ton, "1"),
     Listed(<<"c">>, bsc, "1"), Listed(<<"a", "b">>, bsc, "2"),
     Listed(<<"c">>, ton, "2")}

\* The listings: one to three different entries, in any order.
Listings ==
    {l \in UNION {[1..n -> ListedEntries] : n \in 1..3} :
        \A i, j \in 1..Len(l) : i # j => l[i] # l[j]}

InitSweep ==
    /\ clock = NoClock
    /\ store \in Listings
    /\ monitorInterval = 1
    /\ warmups = 0
    /\ bot = "bot"
    /\ sweeps = [s \in SweepIds |-> Idle]
    /\ reply = NoReply
    /\ events = 0
    /\ script = <<>>
    /\ alerts = 0
    /\ calls = <<>>
    /\ batch = NoBatch
    /\ conversationState = NoConversation
    /\ database = NoDatabase

\* The only tick of the run.
TickOnce ==
    /\ events = 0
    /\ StartSweep(1)
    /\ UNCHANGED <<store, monitorInterval, warmups, bot, harness>>

\* The getMultipleTokensData call of the current group, with what it returned.
FetchCall(sw, tokenDataMap) ==
    [op |-> "fetch",
     chainId |-> Head(sw.groups)[1].chainId,
     addresses |-> [i \in 1..Len(Head(sw.groups)) |-> Head(sw.groups)[i].tokenAddress],
     got |-> tokenDataMap]

FetchLogged(s) ==
    /\ FetchReturn(s)
    /\ calls' = Append(calls, FetchCall(sweeps[s], sweeps'[s].tokenDataMap))
    /\ UNCHANGED <<script, alerts, clock, batch, database, conversationState>>

EvaluateLogged(s) ==
    /\ Evaluate(s)
    /\ calls' = Append(calls, [op |-> "eval", entry |-> CurrentEntry(sweeps[s])])
    /\ UNCHANGED <<script, alerts, clock, batch, database, conversationState>>

NextSweep ==
    \/ TickOnce /\ Quiet
    \/ ListReturn(1) /\ Quiet /\ UNCHANGED harness
    \/ FetchLogged(1) /\ Quiet
    \/ EvaluateLogged(1) /\ Quiet
    \/ SendReturn(1) /\ Quiet /\ UNCHANGED harness
    \/ WriteReturn(1) /\ Quiet /\ UNCHANGED harness

SpecSweep == InitSweep /\ [][NextSweep]_vars

\* ------------------------------------------------------------ batched fetch
\* getMultipleTokensData on its own: a list of 0 to MaxAddresses different
\* addresses, spelled in upper case, and every pattern of answers.
DigitChars == <<"0", "1", "2", "3", "4", "5", "6", "7", "8", "9">>
Address(n) == <<"A", DigitChars[(n \div 10) + 1], DigitChars[(n % 10) + 1]>>
AddressList(n) == [k \in 1..n |-> Address(k)]

InitBatch ==
    /\ store = <<>>
    /\ monitorInterval = 0
    /\ warmups = 0
    /\ bot = "null"
    /\ sweeps = [s \in SweepIds |-> Idle]
    /\ reply = NoReply
    /\ events = 0
    /\ script = <<>>
    /\ alerts = 0
    /\ clock = NoClock
    /\ calls = <<>>
    /\ \E n \in 0..MaxAddresses :
         \E kinds \in [1..((MaxAddresses \div BatchSize) + 1) -> ResponseKinds] :
            batch = [NoBatch EXCEPT !.tokenAddresses = AddressList(n), !.responses = kinds]
    /\ conversationState = NoConversation
    /\ database = NoDatabase

BatchReturns ==
    /\ ~batch.returned
    /\ LET out == GetMultipleTokensData(batch.tokenAddresses, batch.responses)
       IN  batch' = [batch EXCEPT !.returned = TRUE,
                                  !.requests = out.requests,
                                  !.results = out.results]
    /\ UNCHANGED <<store, monitorInterval, warmups, bot, sweeps, reply, events,
                   script, alerts, clock, calls, conversationState, database>>

NextBatch == BatchReturns

SpecBatch == InitBatch /\ [][NextBatch]_vars

\* ---------------------------------------------------------------- best pair
\* One response of the upstream with one to MaxPairs pairs, of token a (spelled
\* in either case), of token b or without a base token address, each with a
\* liquidity or none; priceUsd tells the pairs apart. The response is given to
\* the batched fetch (batch) and to getTokenData (calls).
PairAddresses == {<<"A">>, <<"a">>, <<"b">>, <<>>}
Liquidities == {NoLiquidity} \cup {[missing |-> FALSE, usd |-> u] : u \in {0, 10}}

Responses ==
    UNION {{[k \in 1..n |-> Pair(a[k], l[k], 100 + k)] :
                a \in [1..n -> PairAddresses], l \in [1..n -> Liquidities]} :
           n \in 1..MaxPairs}

InitPairs ==
    /\ store = <<>>
    /\ monitorInterval = 0
    /\ warmups = 0
    /\ bot = "null"
    /\ sweeps = [s \in SweepIds |-> Idle]
    /\ reply = NoReply
    /\ events = 0
    /\ script = <<>>
    /\ alerts = 0
    /\ clock = NoClock
    /\ calls = <<>>
    /\ \E data \in Responses : batch = [NoBatch EXCEPT !.responses = data]
    /\ conversationState = NoConversation
    /\ database = NoDatabase

\* The response reaches getMultipleTokensData.
BatchedReturns ==
    /\ ~batch.returned
    /\ batch' = [batch EXCEPT !.returned = TRUE, !.results = SetAll({}, batch.responses)]
    /\ UNCHANGED <<store, monitorInterval, warmups, bot, sweeps, reply, events,
                   script, alerts, clock, calls, conversationState, database>>

\* The response reaches getTokenData.
SingleReturns ==
    /\ calls = <<>>
    /\ calls' = <<GetTokenData(batch.responses)>>
    /\ UNCHANGED <<store, monitorInterval, warmups, bot, sweeps, reply, events,
                   script, alerts, clock, batch, database, conversationState>>

NextPairs == BatchedReturns \/ SingleReturns

SpecPairs == InitPairs /\ [][NextPairs]_vars

\* --------------------------------------------------------------- formatting
\* A number is a sign, a mantissa m and a decimal exponent e: m * 10^e, or is
\* absent (undefined, null). The mantissas have at most four digits and none
\* ends in 5 or 0, so that no rounding below meets a tie.
Mantissas == {1, 12, 999, 9999}
Absent == [absent |-> TRUE, neg |-> FALSE, m |-> 0, e |-> 0]
Zero == [absent |-> FALSE, neg |-> FALSE, m |-> 0, e |-> 0]
Numbers ==
    {Absent, Zero} \cup
    {[absent |-> FALSE, neg |-> neg, m |-> m, e |-> e] :
        neg \in BOOLEAN, m \in Mantissas, e \in (0 - MaxExponent)..MaxExponent}

RECURSIVE Pow10(_)
Pow10(k) == IF k = 0 THEN 1 ELSE 10 * Pow10(k - 1)

RECURSIVE NumDigits(_)
NumDigits(n) == IF n < 10 THEN 1 ELSE 1 + NumDigits(n \div 10)

Digit(d) == DigitChars[d + 1]

RECURSIVE Digits(_)
Digits(n) == IF n < 10 THEN <<Digit(n)>> ELSE Digits(n \div 10) \o <<Digit(n % 10)>>

Zeros(k) == [i \in 1..k |-> "0"]

\* The decimal order of a number that is not 0: 10^Ord <= |x| < 10^(Ord + 1).
Ord(x) == x.e + NumDigits(x.m) - 1

\* x < 1e<k>
Less(x, k) == x.neg \/ x.m = 0 \/ Ord(x) < k

\* Variant: x > 1e<k>
Above(x, k) ==
    /\ ~x.neg
    /\ x.m # 0
    /\ Ord(x) > k \/ (Ord(x) = k /\ x.m # Pow10(NumDigits(x.m) - 1))

\* x >= 1e<k>
AtLeast(x, k) == ~Less(x, k)

\* x / 1e<k>
Divided(x, k) == [x EXCEPT !.e = x.e - k]

\* m / 10^j rounded to the nearest integer.
Round(m, j) == IF j > 8 THEN 0 ELSE (2 * m + Pow10(j)) \div (2 * Pow10(j))

\* Number.prototype.toFixed(d), below 1e21.
ToFixed(x, d) ==
    LET k == x.e + d
        n == IF k >= 0 THEN x.m ELSE Round(x.m, 0 - k)
        all == IF n = 0 THEN <<"0">> ELSE Digits(n) \o Zeros(IF k >= 0 THEN k ELSE 0)
        padded == Zeros(d + 1 - Len(all)) \o all
        cut == Len(padded) - d
    IN  (IF x.neg THEN <<"-">> ELSE <<>>)
        \o SubSeq(padded, 1, cut) \o <<".">> \o SubSeq(padded, cut + 1, Len(padded))

\* Number.prototype.toExponential(f) of a number with at most f + 1 digits.
ToExponential(x, f) ==
    LET sig == Digits(x.m) \o Zeros(f + 1 - NumDigits(x.m))
        ord == Ord(x)
    IN  (IF x.neg THEN <<"-">> ELSE <<>>)
        \o <<sig[1], ".">> \o SubSeq(sig, 2, f + 1)
        \o <<"e", IF ord < 0 THEN "-" ELSE "+">> \o Digits(IF ord < 0 THEN 0 - ord ELSE ord)

\* The digits of an integer part in groups of three.
RECURSIVE Grouped(_)
Grouped(int) ==
    IF Len(int) <= 3 THEN int
    ELSE Grouped(SubSeq(int, 1, Len(int) - 3)) \o <<",">> \o SubSeq(int, Len(int) - 2, Len(int))

\* toLocaleString('en-US', { minimumFractionDigits: 2, maximumFractionDigits: 2 })
ToLocaleString(x) ==
    LET fixed == ToFixed([x EXCEPT !.neg = FALSE], 2)
        cut == Len(fixed) - 3
    IN  (IF x.neg THEN <<"-">> ELSE <<>>)
        \o Grouped(SubSeq(fixed, 1, cut)) \o SubSeq(fixed, cut + 1, Len(fixed))

RECURSIVE StripTrailing(_)
StripTrailing(text) ==
    IF text # <<>> /\ text[Len(text)] = "0"
    THEN StripTrailing(SubSeq(text, 1, Len(text) - 1))
    ELSE text

\* replace(/\.?0+$/, '')
StripZeros(text) ==
    LET stripped == StripTrailing(text)
    IN  IF stripped # text /\ stripped # <<>> /\ stripped[Len(stripped)] = "."
        THEN SubSeq(stripped, 1, Len(stripped) - 1)
        ELSE stripped

FormatPrice(price) ==
    IF price.m = 0 THEN <<"$", "0", ".", "0", "0">>
    ELSE IF Less(price, 0 - 8) THEN <<"$">> \o ToExponential(price, 4)
    ELSE IF Less(price, 0 - 4) THEN <<"$">> \o StripZeros(ToFixed(price, 10))
    ELSE IF Less(price, 0) THEN <<"$">> \o StripZeros(ToFixed(price, 6))
    ELSE IF Less(price, 3) THEN <<"$">> \o ToFixed(price, 4)
    ELSE <<"$">> \o ToLocaleString(price)

FormatMarketCap(marketCap) ==
    IF marketCap.absent \/ marketCap.m = 0 THEN <<"N", "/", "A">>
    ELSE IF AtLeast(marketCap, 12) THEN <<"$">> \o ToFixed(Divided(marketCap, 12), 2) \o <<"T">>
    ELSE IF AtLeast(marketCap, 9) THEN <<"$">> \o ToFixed(Divided(marketCap, 9), 2) \o <<"B">>
    ELSE IF AtLeast(marketCap, 6) THEN <<"$">> \o ToFixed(Divided(marketCap, 6), 2) \o <<"M">>
    ELSE IF AtLeast(marketCap, 3) THEN <<"$">> \o ToFixed(Divided(marketCap, 3), 2) \o <<"K">>
    ELSE <<"$">> \o ToFixed(marketCap, 2)

\* One number (script) is formatted up to MaxFormats times; calls holds what each
\* call returned.
InitFormat ==
    /\ store = <<>>
    /\ monitorInterval = 0
    /\ warmups = 0
    /\ bot = "null"
    /\ sweeps = [s \in SweepIds |-> Idle]
    /\ reply = NoReply
    /\ events = 0
    /\ \E x \in Numbers : script = <<x>>
    /\ alerts = 0
    /\ clock = NoClock
    /\ calls = <<>>
    /\ batch = NoBatch
    /\ conversationState = NoConversation
    /\ database = NoDatabase

FormatPriceCall ==
    /\ Len(calls) < MaxFormats
    /\ ~script[1].absent
    /\ calls' = Append(calls, [op |-> "formatPrice", text |-> FormatPrice(script[1])])
    /\ UNCHANGED <<store, monitorInterval, warmups, bot, sweeps, reply, events,
                   script, alerts, clock, batch, database, conversationState>>

FormatMarketCapCall ==
    /\ Len(calls) < MaxFormats
    /\ calls' = Append(calls, [op |-> "formatMarketCap", text |-> FormatMarketCap(script[1])])
    /\ UNCHANGED <<store, monitorInterval, warmups, bot, sweeps, reply, events,
                   script, alerts, clock, batch, database, conversationState>>

NextFormat == FormatPriceCall \/ FormatMarketCapCall

SpecFormat == InitFormat /\ [][NextFormat]_vars

\* ----------------------------------------------------------------- database
\* database.js: connectDB with its retries, disconnectDB, and what getDB and
\* isConnected answer at any moment. client and db hold the number of the
\* MongoClient they belong to (0: null). clock.now counts the delays waited
\* and calls logs the attempts, the delays and how connectDB ended.
DbStep(op, attempt, ms) == [op |-> op, attempt |-> attempt, ms |-> ms]

\* Math.pow(2, attempt - 1)
RECURSIVE Pow2(_)
Pow2(n) == IF n = 0 THEN 1 ELSE 2 * Pow2(n - 1)

\* Variant: every retry waits INITIAL_RETRY_DELAY_MS.
RetryDelayFlat(attempt) == INITIAL_RETRY_DELAY_MS

\* INITIAL_RETRY_DELAY_MS * Math.pow(2, attempt - 1)
RetryDelay(attempt) == INITIAL_RETRY_DELAY_MS * Pow2(attempt - 1)

\* getDB(): the handle, or it throws.
GetDB == IF database.db = 0 THEN [thrown |-> TRUE, db |-> 0]
         ELSE [thrown |-> FALSE, db |-> database.db]

\* isConnected()
IsConnected == database.client # 0 /\ database.db # 0

DbFrame ==
    UNCHANGED <<store, monitorInterval, warmups, bot, sweeps, reply, events,
                script, alerts, batch, conversationState>>

\* The loop body up to client.connect(): a new MongoClient is assigned.
Attempt(d, attempt) ==
    [d EXCEPT !.made = @ + 1, !.client = d.made + 1, !.attempt = attempt, !.pc = "connect"]

\* connectDB() is called; no other connectDB call is in flight.
ConnectDB ==
    /\ database.pc \in {"idle", "returned", "thrown"}
    /\ database.made < MaxClients
    /\ database' = Attempt([database EXCEPT !.lastError = 0], 1)
    /\ calls' = Append(calls, DbStep("attempt", 1, 0))
    /\ clock' = clock
    /\ DbFrame

\* The catch block: the error is kept, and a delay follows unless this was
\* the last attempt, after which lastError is thrown.
Catch(d) ==
    IF d.attempt < MAX_RETRIES
    THEN [d EXCEPT !.lastError = d.attempt, !.pc = "delay"]
    ELSE [d EXCEPT !.lastError = d.attempt, !.pc = "thrown"]

Caught(d) ==
    IF d.attempt < MAX_RETRIES
    THEN <<DbStep("delay", d.attempt, RetryDelay(d.attempt))>>
    ELSE <<DbStep("thrown", d.attempt, 0)>>

\* What follows an await of connectDB goes on only if the call returned and
\* client is not null: client.db and client.on throw on null.
ClientKept(ok) == ok /\ database.client # 0

\* client.connect() returns or rejects.
ConnectReturns(ok) ==
    /\ database.pc = "connect"
    /\ database' = IF ClientKept(ok) THEN [database EXCEPT !.db = database.client, !.pc = "index"]
                   ELSE Catch(database)
    /\ calls' = IF ClientKept(ok) THEN calls ELSE calls \o Caught(database)
    /\ clock' = clock
    /\ DbFrame

\* createIndex returns or rejects.
IndexReturns(ok) ==
    /\ database.pc = "index"
    /\ database' = IF ClientKept(ok) THEN [database EXCEPT !.pc = "returned"] ELSE Catch(database)
    /\ calls' = IF ClientKept(ok) THEN Append(calls, DbStep("returned", database.attempt, 0))
                ELSE calls \o Caught(database)
    /\ clock' = clock
    /\ DbFrame

\* The delay is over: the next attempt begins.
DelayElapses ==
    /\ database.pc = "delay"
    /\ database' = Attempt(database, database.attempt + 1)
    /\ clock' = [clock EXCEPT !.now = @ + calls[Len(calls)].ms]
    /\ calls' = Append(calls, DbStep("attempt", database.attempt + 1, 0))
    /\ DbFrame

\* disconnectDB() up to client.close()
DisconnectDB ==
    /\ database.client # 0
    /\ ~database.closing
    /\ database' = [database EXCEPT !.closing = TRUE]
    /\ UNCHANGED <<clock, calls>>
    /\ DbFrame

\* client.close() returns, and client and db become null, or it rejects.
CloseReturns(ok) ==
    /\ database.closing
    /\ database' = IF ok THEN [database EXCEPT !.closing = FALSE, !.client = 0, !.db = 0]
                   ELSE [database EXCEPT !.closing = FALSE]
    /\ UNCHANGED <<clock, calls>>
    /\ DbFrame

NextDb ==
    \/ ConnectDB
    \/ \E ok \in BOOLEAN : ConnectReturns(ok)
    \/ \E ok \in BOOLEAN : IndexReturns(ok)
    \/ DelayElapses
    \/ DisconnectDB
    \/ \E ok \in BOOLEAN : CloseReturns(ok)

SpecDb == Init /\ [][NextDb]_vars

\* ---------------------------------------------------------------- timed run
\* The scheduler with time: startMonitor and stopMonitor called at whole
\* seconds with an interval of 1 s, 5 s or the default, timers that fire when
\* due, and sweeps over an empty watchlist, which are in flight until their
\* listing returns. clock.warmupDue lists the due
\* times of the pending setTimeout callbacks, clock.intervalDue is the due time
\* of the interval held in monitorInterval.
IntervalChoices == {1000, WarmupDelayMs, DefaultIntervalMs}

RemoveAt(seq, k) == [i \in 1..(Len(seq) - 1) |-> IF i < k THEN seq[i] ELSE seq[i + 1]]

StartTimed(intervalMs) ==
    /\ events < MaxEvents
    /\ events' = events + 1
    /\ bot' = "bot"
    /\ warmups' = warmups + 1
    /\ monitorInterval' = 1
    /\ clock' = [clock EXCEPT !.started = clock.now,
                              !.intervalMs = intervalMs,
                              !.intervalDue = clock.now + intervalMs,
                              !.warmupDue = Append(@, clock.now + WarmupDelayMs)]
    /\ UNCHANGED <<store, sweeps, reply, script, alerts, calls, batch, database, conversationState>>

StopTimed ==
    /\ events < MaxEvents
    /\ events' = events + 1
    /\ monitorInterval' = IF monitorInterval # 0 THEN 0 ELSE monitorInterval
    /\ UNCHANGED <<store, warmups, bot, sweeps, reply, script, alerts, clock, calls, batch, database, conversationState>>

\* A setTimeout callback of a start runs: its delay has elapsed.
WarmupElapses ==
    /\ FreeSweeps # {}
    /\ \E k \in 1..Len(clock.warmupDue) :
        /\ clock.warmupDue[k] <= clock.now
        /\ clock' = [clock EXCEPT !.warmupDue = RemoveAt(@, k)]
    /\ warmups' = warmups - 1
    /\ StartSweep(CHOOSE s \in FreeSweeps : \A r \in FreeSweeps : s <= r)
    /\ UNCHANGED <<store, monitorInterval, bot, reply, script, alerts, calls, batch, database, conversationState>>

\* Variant: the callback waits for the sweeps in flight to return.
IntervalElapsesSerialized ==
    /\ monitorInterval # 0
    /\ FreeSweeps # {}
    /\ \A s \in SweepIds : sweeps[s].pc \in {"idle", "done"}
    /\ clock.intervalDue <= clock.now
    /\ clock' = [clock EXCEPT !.intervalDue = @ + clock.intervalMs]
    /\ StartSweep(CHOOSE s \in FreeSweeps : \A r \in FreeSweeps : s <= r)
    /\ UNCHANGED <<store, monitorInterval, warmups, bot, reply, script, alerts, calls, batch, database, conversationState>>

\* The setInterval callback runs, and the interval is due again intervalMs later.
IntervalElapses ==
    /\ monitorInterval # 0
    /\ FreeSweeps # {}
    /\ clock.intervalDue <= clock.now
    /\ clock' = [clock EXCEPT !.intervalDue = @ + clock.intervalMs]
    /\ StartSweep(CHOOSE s \in FreeSweeps : \A r \in FreeSweeps : s <= r)
    /\ UNCHANGED <<store, monitorInterval, warmups, bot, reply, script, alerts, calls, batch, database, conversationState>>

NextTimed ==
    \/ \E intervalMs \in IntervalChoices : StartTimed(intervalMs)
    \/ StopTimed
    \/ WarmupElapses
    \/ IntervalElapses
    \/ TimePasses
    \/ \E s \in SweepIds : ListReturn(s) /\ Quiet /\ UNCHANGED harness

SpecTimed == Init /\ [][NextTimed]_vars

\* ------------------------------------------------------------ conversations
\* interactive.js: the Map conversationState holds one state object per chat;
\* conversationState.objects are the objects created so far, by reference,
\* conversationState.map the Map, and conversationState.awaiting the
\* handleCallbackQuery calls suspended at editMessageText, each with the chat
\* and the object it will set when it resumes. calls logs the steps taken.
ChatInputs == {1}
MessageTexts == {<<"a", "B">>, <<"1", "0">>, <<"0">>, <<"1", "0", "1">>, <<"S", "k", "i", "p">>}
InteractiveCommands == {"add", "threshold"}
KeyboardChains == {bsc, ton}
skip == <<"s", "k", "i", "p">>

\* callback_data: 'cancel', or command:chain:id split at the colons.
CancelData == [command |-> "cancel", action |-> "", value |-> <<>>]
CallbackData ==
    {[command |-> c, action |-> "chain", value |-> v] :
        c \in InteractiveCommands, v \in KeyboardChains} \cup {CancelData}

\* The text as parseFloat reads it; the texts that are not numerals do not
\* start with a digit.
Spelled(text) ==
    CASE text = <<"0">> -> "0"
      [] text = <<"5">> -> "5"
      [] text = <<"1", "0">> -> "10"
      [] text = <<"1", "0", "1">> -> "101"
      [] OTHER -> "abc"

\* { command, step: 'chain', data: {} }
NewState(command) ==
    [command |-> command, step |-> "chain", chain |-> Undefined, address |-> Undefined]

\* An object nothing refers to any more.
Freed == [command |-> "", step |-> "", chain |-> Undefined, address |-> Undefined]

Collect(cs) ==
    [cs EXCEPT !.objects =
        [ref \in 1..Len(cs.objects) |->
            IF (\E chatId \in ChatIds : cs.map[chatId] = ref)
               \/ (\E p \in cs.awaiting : p.ref = ref)
            THEN cs.objects[ref] ELSE Freed]]

\* conversationState.delete(chatId)
Delete(cs, chatId) == Collect([cs EXCEPT !.map[chatId] = 0])

\* A step of a flow, as logged.
Step(op, ref, chatId, chainId, tokenAddress, threshold, state) ==
    [op |-> op, ref |-> ref, chatId |-> chatId, chainId |-> chainId,
     tokenAddress |-> tokenAddress, threshold |-> threshold, state |-> state]

ChatFrame ==
    /\ events < MaxMessages
    /\ events' = events + 1
    /\ UNCHANGED <<monitorInterval, warmups, bot, sweeps, script, alerts, clock, batch, database>>

\* /add, /threshold without arguments
HandleInteractive(chatId, command) ==
    LET ref == Len(conversationState.objects) + 1
    IN  /\ conversationState' = Collect(
                [conversationState EXCEPT !.objects = Append(@, NewState(command)),
                                          !.map[chatId] = ref])
        /\ reply' = Reply("Select the chain", chatId, Undefined, Undefined)
        /\ calls' = Append(calls, Step("start", ref, chatId, Undefined, Undefined, 0, ref))
        /\ store' = store
        /\ ChatFrame

\* /cancel
HandleCancel(chatId) ==
    /\ conversationState' = Delete(conversationState, chatId)
    /\ reply' = Reply("Operation cancelled", chatId, Undefined, Undefined)
    /\ UNCHANGED <<store, calls>>
    /\ ChatFrame

\* handleCallbackQuery from answerCallbackQuery's return up to editMessageText.
HandleCallbackQuery(chatId, data) ==
    LET ref == conversationState.map[chatId]
    IN  /\ IF data = CancelData
           THEN /\ conversationState' = Delete(conversationState, chatId)
                /\ reply' = Reply("Operation cancelled", chatId, Undefined, Undefined)
                /\ calls' = calls
           ELSE IF ref = 0 \/ conversationState.objects[ref].command # data.command
           THEN /\ conversationState' = conversationState
                /\ reply' = Reply("Session expired", chatId, Undefined, Undefined)
                /\ calls' = calls
           ELSE /\ data.action = "chain"
                /\ conversationState' =
                        [conversationState EXCEPT
                            !.objects[ref].chain = data.value,
                            !.objects[ref].step = "address",
                            !.awaiting = @ \cup {[chatId |-> chatId, ref |-> ref]}]
                /\ reply' = Reply("Now please enter the token contract address",
                                  chatId, data.value, Undefined)
                /\ calls' = Append(calls, Step("chain", ref, chatId, data.value, Undefined, 0, ref))
        /\ store' = store
        /\ ChatFrame

\* editMessageText returns to a suspended handleCallbackQuery, which sets the
\* chat's state to the object it holds; if the edit was rejected it does not.
EditReturns(p, edited) ==
    /\ p \in conversationState.awaiting
    /\ conversationState' = Collect(
            [conversationState EXCEPT !.awaiting = @ \ {p},
                                      !.map[p.chatId] = IF edited THEN p.ref ELSE @])
    /\ UNCHANGED <<store, monitorInterval, warmups, bot, sweeps, events,
                   script, alerts, clock, calls, batch, database>>

\* A text that handleConversationMessage takes: not a command, trimmed and
\* not empty, in a chat that has a conversation.
Taken(chatId, text) ==
    /\ text # <<>>
    /\ text[1] # "/"
    /\ conversationState.map[chatId] # 0

\* step 'address' of add and of threshold
MessageAddress(chatId, text) ==
    LET ref == conversationState.map[chatId]
        state == conversationState.objects[ref]
    IN  /\ Taken(chatId, text)
        /\ state.command \in {"add", "threshold"}
        /\ state.step = "address"
        /\ conversationState' =
                [conversationState EXCEPT
                    !.objects[ref].address = text,
                    !.objects[ref].step = IF state.command = "add" THEN "threshold"
                                          ELSE "percent"]
        /\ reply' = Reply("Address received", chatId, state.chain, text)
        /\ calls' = Append(calls, Step("address", ref, chatId, state.chain, text, 0, ref))
        /\ store' = store
        /\ ChatFrame

\* Variant: a refused threshold text ends the conversation.
RefuseEnds(chatId) == Delete(conversationState, chatId)

\* A refused threshold text: the handler answers and returns, the chat's state
\* is neither deleted nor changed.
Refuse(chatId) == conversationState

\* step 'threshold' of add
MessageThreshold(chatId, text) ==
    LET ref == conversationState.map[chatId]
        state == conversationState.objects[ref]
        threshold == IF ToLowerCase(text) # skip THEN ParseFloat(Spelled(text))
                     ELSE [nan |-> FALSE, val |-> 5]
        deleted == Delete(conversationState, chatId)
    IN  /\ Taken(chatId, text)
        /\ state.command = "add"
        /\ state.step = "threshold"
        /\ IF InvalidThreshold(threshold)
           THEN /\ reply' = Reply("Invalid threshold", chatId, state.chain, state.address)
                /\ conversationState' = Refuse(chatId)
                /\ UNCHANGED <<store, calls>>
           ELSE /\ conversationState' = deleted
                /\ \E r \in AddOutcomes :
                        AddSteps(chatId, state.chain, state.address, threshold.val, r)
                /\ calls' = Append(calls, Step("processAdd", ref, chatId, state.chain,
                                               state.address, threshold.val,
                                               deleted.map[chatId]))
        /\ ChatFrame

\* step 'percent' of threshold
MessagePercent(chatId, text) ==
    LET ref == conversationState.map[chatId]
        state == conversationState.objects[ref]
        percent == ParseFloat(Spelled(text))
        deleted == Delete(conversationState, chatId)
    IN  /\ Taken(chatId, text)
        /\ state.command = "threshold"
        /\ state.step = "percent"
        /\ IF InvalidThreshold(percent)
           THEN /\ reply' = Reply("Invalid threshold", chatId, state.chain, state.address)
                /\ conversationState' = Refuse(chatId)
                /\ UNCHANGED <<store, calls>>
           ELSE /\ conversationState' = deleted
                /\ \E dbOk \in BOOLEAN :
                    LET res == UpdateThreshold(store, state.address, state.chain,
                                               StringOf(chatId), percent.val, dbOk)
                    IN  /\ store' = res.coll
                        /\ reply' = Reply(IF res.updated THEN "Alert threshold updated"
                                          ELSE "Token not found in your watchlist",
                                          chatId, state.chain, state.address)
                /\ calls' = Append(calls, Step("processThreshold", ref, chatId, state.chain,
                                               state.address, percent.val,
                                               deleted.map[chatId]))
        /\ ChatFrame

HandleConversationMessage(chatId, text) ==
    \/ MessageAddress(chatId, text)
    \/ MessageThreshold(chatId, text)
    \/ MessagePercent(chatId, text)

\* /threshold <chain> <address> <percent>
HandleThresholdDirect(chatId, chainInput, tokenAddress, thresholdText) ==
    LET chainId == ChainAlias(ToLowerCase(chainInput))
        newThreshold == ParseFloat(thresholdText)
    IN  /\ events < MaxEvents
        /\ IF chainId = Undefined
           THEN /\ store' = store
                /\ reply' = Reply("Unknown chain", chatId, chainInput, tokenAddress)
           ELSE IF InvalidThreshold(newThreshold)
           THEN /\ store' = store
                /\ reply' = Reply("Threshold must be a number", chatId, chainId, tokenAddress)
           ELSE \E dbOk \in BOOLEAN :
                    LET res == UpdateThreshold(store, tokenAddress, chainId,
                                               StringOf(chatId), newThreshold.val, dbOk)
                    IN  /\ store' = res.coll
                        /\ reply' = Reply(IF res.updated THEN "Alert threshold updated"
                                          ELSE "Token not found in your watchlist",
                                          chatId, chainId, tokenAddress)
        /\ events' = events + 1
        /\ UNCHANGED <<monitorInterval, warmups, bot, sweeps, harness>>

NextChat ==
    \/ \E chatId \in ChatInputs, command \in InteractiveCommands :
            HandleInteractive(chatId, command)
    \/ \E chatId \in ChatInputs : HandleCancel(chatId)
    \/ \E chatId \in ChatInputs, data \in CallbackData : HandleCallbackQuery(chatId, data)
    \/ \E p \in conversationState.awaiting, edited \in BOOLEAN : EditReturns(p, edited) /\ Quiet
    \/ \E chatId \in ChatInputs, text \in MessageTexts : HandleConversationMessage(chatId, text)
    \/ \E chatId \in ChatInputs, chainInput \in DirectChainInputs,
          tokenAddress \in AddressInputs, thresholdText \in ThresholdTexts :
            \/ HandleAddDirect(chatId, chainInput, tokenAddress, thresholdText)
            \/ HandleThresholdDirect(chatId, chainInput, tokenAddress, thresholdText)

SpecChat == Init /\ [][NextChat]_vars

\* --------------------------------------------------------------- properties
\* A step of sweep s, and the step that evaluates its current entry.
SweepMoves(s) == sweeps'[s] # sweeps[s]
Evaluates(s) == sweeps[s].pc = "eval" /\ SweepMoves(s)

\* What the evaluated entry and the fetched map hold.
Entry(s) == CurrentEntry(sweeps[s])
HasData(s) == \E r \in sweeps[s].tokenDataMap : r.address = Entry(s).tokenAddress
Fetched(s) == (CHOOSE r \in sweeps[s].tokenDataMap : r.address = Entry(s).tokenAddress).priceUsd
ValidPrices(s) == HasData(s) /\ Entry(s).lastAlertPrice > 0 /\ Fetched(s) > 0

\* The step raised an alert: sendPriceAlert is sending the message.
Fires(s) == sweeps'[s].pc = "send"

\* The update call for entry e with price p.
UpdateCall(e, p) ==
    [tokenAddress |-> e.tokenAddress, chainId |-> e.chainId, chatId |-> e.chatId,
     newPrice |-> p]

\* The collection with the reference price of e's key set to p, all else kept.
Rewritten(coll, e, p) ==
    [i \in 1..Len(coll) |->
        IF /\ coll[i].tokenAddress = e.tokenAddress
           /\ coll[i].chainId = e.chainId
           /\ coll[i].chatId = e.chatId
        THEN [coll[i] EXCEPT !.lastAlertPrice = p]
        ELSE coll[i]]

\* The sweep has gone on after its current entry: to the next entry of the
\* group, or past the group's end.
GoesOn(s) ==
    IF sweeps[s].ei < Len(Head(sweeps[s].groups))
    THEN /\ sweeps'[s].pc = "eval"
         /\ sweeps'[s].ei = sweeps[s].ei + 1
         /\ sweeps'[s].groups = sweeps[s].groups
    ELSE sweeps'[s].pc \in {"fetch", "done"}

\* C1: in a sweep, for an entry with reference price > 0 and fetched price > 0,
\* an alert fires if and only if the absolute percent change from the reference
\* is at least the entry's threshold; a change equal to the threshold fires.
C1_FiresIffThresholdReached ==
    [][\A s \in SweepIds :
        (Evaluates(s) /\ ValidPrices(s)) =>
            (Fires(s) <=>
                Abs(Fetched(s) - Entry(s).lastAlertPrice) * 100
                    >= Entry(s).dropThreshold * Entry(s).lastAlertPrice)]_vars

\* An alert being sent for a fall of exactly the threshold (1.00 -> 0.95 at 5).
C1_Witness ==
    \E s \in SweepIds :
        /\ sweeps[s].pc = "send"
        /\ Entry(s).lastAlertPrice = 100
        /\ Entry(s).dropThreshold = 5
        /\ Fetched(s) = 95

\* C2: after an alert fires the sweep calls the reference write with the key of
\* the entry that fired and the fetched price; the write sets that entry's
\* reference price to the fetched price and changes nothing else, and no other
\* step of a sweep changes the store.
C2_FireWritesReference ==
    [][\A s \in SweepIds :
        SweepMoves(s) =>
            /\ sweeps'[s].pc = "write" =>
                    sweeps'[s].upd = UpdateCall(CurrentEntry(sweeps'[s]),
                                                CurrentPrice(sweeps'[s]))
            /\ sweeps[s].pc = "write" =>
                    store' \in {store, Rewritten(store, Entry(s), Fetched(s))}
            /\ sweeps[s].pc # "write" => store' = store]_vars

\* An entry added at 1.00 whose reference a sweep has reset to 0.95.
C2_Witness ==
    \E i \in 1..Len(store) :
        store[i].initialPrice = 100 /\ store[i].lastAlertPrice = 95

\* C3: an evaluation that stays below the threshold sends no notification,
\* calls no write and leaves the store as it is (threshold 5, 1.00 -> 0.96).
C3_NoFireNoEffect ==
    [][\A s \in SweepIds :
        (/\ Evaluates(s)
         /\ ValidPrices(s)
         /\ Abs(Fetched(s) - Entry(s).lastAlertPrice) * 100
                < Entry(s).dropThreshold * Entry(s).lastAlertPrice) =>
            /\ store' = store
            /\ sweeps'[s].pc \notin {"send", "write"}
            /\ sweeps'[s].msg = NoMsg
            /\ sweeps'[s].upd = NoUpd
            /\ GoesOn(s)]_vars

\* A sweep past an entry it did not fire for: threshold 5, 1.00 -> 0.96.
C3_Witness ==
    \E s \in SweepIds :
        /\ sweeps[s].pc = "eval"
        /\ sweeps[s].ei = 2
        /\ sweeps[s].last = "nofire"
        /\ Head(sweeps[s].groups)[1].lastAlertPrice = 100
        /\ Head(sweeps[s].groups)[1].dropThreshold = 5
        /\ \E r \in sweeps[s].tokenDataMap : r.priceUsd = 96
        /\ \E i \in 1..Len(store) : store[i] = Head(sweeps[s].groups)[1]

\* The reference price of chat 1's entry.
TrackedReference ==
    LET i == CHOOSE k \in 1..Len(store) : store[k].chatId = "1"
    IN  store[i].lastAlertPrice

\* C4: reference 1.00, threshold 5, sweeps one after the other fetching 0.94,
\* 0.89, 0.92, 0.84: between sweeps the reference and the alerts so far are
\* 0.94 and 1, then 0.89 and 2, then still 0.89 and 2, then 0.84 and 3.
C4_RecursiveSequence ==
    NoSweepRunning =>
        <<Len(script), TrackedReference, alerts>> \in
            {<<4, 100, 0>>, <<3, 94, 1>>, <<2, 89, 2>>, <<1, 89, 2>>, <<0, 84, 3>>}

\* The four sweeps are over: three alerts, reference 0.84.
C4_Witness ==
    /\ NoSweepRunning
    /\ script = <<>>
    /\ alerts = 3
    /\ TrackedReference = 84

\* C5: a rise of at least the threshold fires like a fall of that size, and
\* the alert's direction is up for a rise and down for a fall.
C5_SymmetricTrigger ==
    [][\A s \in SweepIds :
        (Evaluates(s) /\ ValidPrices(s)) =>
            /\ (Fetched(s) - Entry(s).lastAlertPrice) * 100
                    >= Entry(s).dropThreshold * Entry(s).lastAlertPrice
                => (Fires(s) /\ sweeps'[s].msg.isUp)
            /\ (Entry(s).lastAlertPrice - Fetched(s)) * 100
                    >= Entry(s).dropThreshold * Entry(s).lastAlertPrice
                => (Fires(s) /\ ~sweeps'[s].msg.isUp)]_vars

\* An alert with direction up being sent: threshold 5, 1.00 -> 1.06.
C5_Witness ==
    \E s \in SweepIds :
        /\ sweeps[s].pc = "send"
        /\ sweeps[s].msg.isUp
        /\ Entry(s).lastAlertPrice = 100
        /\ Entry(s).dropThreshold = 5
        /\ Fetched(s) = 106

\* C6: an entry whose reference price is <= 0, or whose fetched price is <= 0,
\* raises no alert and no write; the store is unchanged and the sweep goes on
\* with the entries that remain.
C6_NonPositiveGuard ==
    [][\A s \in SweepIds :
        (/\ Evaluates(s)
         /\ HasData(s)
         /\ (Entry(s).lastAlertPrice <= 0 \/ Fetched(s) <= 0)) =>
            /\ store' = store
            /\ sweeps'[s].pc \notin {"send", "write"}
            /\ sweeps'[s].msg = NoMsg
            /\ sweeps'[s].upd = NoUpd
            /\ GoesOn(s)]_vars

\* A sweep past an entry with a positive reference for which it fetched 0.
C6_Witness ==
    \E s \in SweepIds :
        /\ sweeps[s].pc = "eval"
        /\ sweeps[s].ei = 2
        /\ sweeps[s].last = "skip"
        /\ Head(sweeps[s].groups)[1].lastAlertPrice = 100
        /\ \E r \in sweeps[s].tokenDataMap : r.priceUsd = 0

\* C7: every stored entry has a reference price > 0 and an initial price > 0.
\* An add for a token whose best pair carries no usable priceUsd stores 0 in
\* both, so this is violated.
C7_StoredPricesPositive ==
    \A i \in 1..Len(store) :
        store[i].lastAlertPrice > 0 /\ store[i].initialPrice > 0

\* C8: when sending an alert fails the sweep still calls the reference write
\* with the fetched price, the write takes effect as after a delivered alert,
\* and the sweep goes on with the entries that remain.
C8_SendFailureStillResets ==
    [][\A s \in SweepIds :
        SweepMoves(s) =>
            /\ sweeps[s].pc = "send" =>
                    /\ sweeps'[s].pc = "write"
                    /\ sweeps'[s].sent \in {"ok", "failed"}
                    /\ sweeps'[s].upd = UpdateCall(Entry(s), Fetched(s))
                    /\ sweeps'[s].groups = sweeps[s].groups
                    /\ sweeps'[s].ei = sweeps[s].ei
            /\ (sweeps[s].pc = "write" /\ sweeps[s].sent = "failed") =>
                    /\ store' \in {store, Rewritten(store, Entry(s), Fetched(s))}
                    /\ GoesOn(s)]_vars

\* A failed send of an alert for the first of two entries, its write called.
C8_Witness ==
    \E s \in SweepIds :
        /\ sweeps[s].pc = "write"
        /\ sweeps[s].sent = "failed"
        /\ sweeps[s].ei = 1
        /\ Len(Head(sweeps[s].groups)) = 2
        /\ sweeps[s].upd.newPrice = 95

\* Entry e has the key (tokenAddress, chainId, chatId), letter case aside.
HasKey(e, tokenAddress, chainId, chatId) ==
    /\ ToLowerCase(e.tokenAddress) = ToLowerCase(tokenAddress)
    /\ ToLowerCase(e.chainId) = ToLowerCase(chainId)
    /\ e.chatId = chatId

Unique(coll) ==
    \A i, j \in 1..Len(coll) :
        HasKey(coll[i], coll[j].tokenAddress, coll[j].chainId, coll[j].chatId) => i = j

\* C9: no two stored entries have the same (tokenAddress, chainId, chatId),
\* letter case aside, and an add for a key that is stored, in whatever letter
\* case it is typed, answers "already in your watchlist" and leaves the store
\* as it is.
C9_KeyUnique ==
    [][/\ store' # store => Unique(store')
       /\ (/\ reply'.text \in {"Token Added", "already in your watchlist"}
           /\ \E i \in 1..Len(store) :
                 HasKey(store[i], reply'.tokenAddress, reply'.chainId,
                        StringOf(reply'.chatId)))
          => (reply'.text = "already in your watchlist" /\ store' = store)]_vars

\* A second add typed with an upper-case letter, refused, the one entry kept.
C9_Witness ==
    /\ reply.text = "already in your watchlist"
    /\ reply.tokenAddress = <<"a", "B">>
    /\ Len(store) = 1
    /\ store[1].tokenAddress = <<"a", "b">>
    /\ store[1].chatId = StringOf(reply.chatId)

\* C10: the write after an alert leaves the entries of every other chat as
\* they are, and the alert is addressed to the chat of the entry that fired.
C10_SubscriberIsolation ==
    [][\A s \in SweepIds :
        SweepMoves(s) =>
            /\ sweeps'[s].pc = "send" =>
                    sweeps'[s].msg.chatId = CurrentEntry(sweeps'[s]).chatId
            /\ sweeps[s].pc = "write" =>
                    /\ Len(store') = Len(store)
                    /\ \A i \in 1..Len(store) :
                          store[i].chatId # Entry(s).chatId => store'[i] = store[i]]_vars

\* Two chats hold the same token; one reference was reset to 0.95, the
\* other is still 1.00.
C10_Witness ==
    \E i, j \in 1..Len(store) :
        /\ store[i].chatId # store[j].chatId
        /\ store[i].tokenAddress = store[j].tokenAddress
        /\ store[i].chainId = store[j].chainId
        /\ store[i].lastAlertPrice = 95
        /\ store[j].lastAlertPrice = 100
        /\ store[j].initialPrice = 100

UpperCaseLetters == {"A", "B", "C", "N", "O", "S", "T", "X"}
IsLowerCase(str) == \A i \in 1..Len(str) : str[i] \notin UpperCaseLetters

\* C11: stored entries hold lowercase tokenAddress and chainId, and a store
\* call whose address and chain are a letter-case variant of a stored entry's
\* finds that entry: remove deletes it, updateThreshold and
\* updateLastAlertPrice set its field, add is refused; a call whose key is not
\* stored changes nothing unless it is an add.
C11_KeyedCallsLowercase ==
    [][events' # events =>
        LET c == calls'[1]
            hits == {i \in 1..Len(store) :
                        HasKey(store[i], c.tokenAddress, c.chainId, c.chatId)}
        IN  /\ \A i \in 1..Len(store') :
                  IsLowerCase(store'[i].tokenAddress) /\ IsLowerCase(store'[i].chainId)
            /\ (c.dbOk /\ hits # {}) =>
                  CASE c.op = "remove" ->
                         /\ c.result
                         /\ Len(store') = Len(store) - 1
                         /\ \A i \in 1..Len(store') :
                               ~HasKey(store'[i], c.tokenAddress, c.chainId, c.chatId)
                    [] c.op = "updateThreshold" ->
                         /\ c.result
                         /\ \A i \in hits : store' = [store EXCEPT ![i].dropThreshold = c.value]
                    [] c.op = "updateLastAlertPrice" ->
                         \A i \in hits : store' = [store EXCEPT ![i].lastAlertPrice = c.value]
                    [] c.op = "add" -> ~c.result /\ store' = store
            /\ (hits = {} /\ c.op # "add") => store' = store]_vars

\* An entry removed by a call typed all in upper case.
C11_Witness ==
    /\ calls # <<>>
    /\ calls[1].op = "remove"
    /\ calls[1].tokenAddress = <<"A", "B">>
    /\ calls[1].chainId = <<"B", "S", "C">>
    /\ calls[1].result

\* Sweep s is started in this step.
Starts(s) == sweeps[s].pc = "idle" /\ sweeps'[s].pc = "list"

\* C12: while the monitor is stopped (monitorInterval is null) no sweep is
\* started. The warm-up timer of a start is not cancelled by stopMonitor, so
\* this is violated by start, stop, warm-up callback.
C12_StoppedStartsNoSweep ==
    [][monitorInterval = 0 => \A s \in SweepIds : ~Starts(s)]_vars

\* C13: a warm-up callback that runs is the one of the most recent start, due
\* WarmupDelayMs after it. A second start leaves the first start's timeout
\* pending, so this is violated by start, start a second later, first callback.
C13_OnlyLatestStartFires ==
    [][Len(clock'.warmupDue) < Len(clock.warmupDue) =>
        /\ Len(clock.warmupDue) = 1
        /\ clock.warmupDue[1] = clock.started + WarmupDelayMs]_vars

\* C14: while the warm-up of the one start made so far is pending, no sweep
\* starts earlier than WarmupDelayMs after the start. With intervalMs below
\* the warm-up delay the interval's callback runs first, so this is violated.
C14_NoSweepBeforeWarmup ==
    [][\A s \in SweepIds :
        (Starts(s) /\ clock.warmupDue = <<clock.started + WarmupDelayMs>>) =>
            clock.now >= clock.started + WarmupDelayMs]_vars

InFlight(s) == sweeps[s].pc \notin {"idle", "done"}

\* C15: the interval's callback runs when the interval is due, whether or not
\* earlier sweeps are still in flight: whenever the interval is armed and due
\* (and the run's budget of sweeps is not spent) the tick can be taken.
C15_TicksOnFixedCadence ==
    (monitorInterval # 0 /\ clock.intervalDue <= clock.now /\ events < MaxEvents)
        => ENABLED IntervalElapses

\* Two sweeps in flight at once, started by the ticks at 1 s and 2 s of an
\* interval of 1 s.
C15_Witness ==
    /\ clock.intervalMs = 1000
    /\ clock.now = 2000
    /\ Len(clock.warmupDue) = 1
    /\ InFlight(1)
    /\ InFlight(2)

\* C16: a sweep whose listing finds the watchlist empty returns at once: it
\* never reaches the market-data fetch, the notification or the store write,
\* and the store is as it was.
C16_EmptySweepNoOp ==
    [][\A s \in SweepIds :
        (sweeps[s].pc = "list" /\ SweepMoves(s) /\ store = <<>>) =>
            /\ sweeps'[s] = Done
            /\ store' = store]_vars

\* The first sweep of a run has returned and nothing was ever added.
C16_Witness ==
    /\ store = <<>>
    /\ events = 1
    /\ \E s \in SweepIds : sweeps[s].pc = "done"

\* The key of an entry, and a logged call without what it returned.
KeyOf(e) == [tokenAddress |-> e.tokenAddress, chainId |-> e.chainId, chatId |-> e.chatId]
CallShape(c) ==
    IF c.op = "fetch"
    THEN [op |-> "fetch", chainId |-> c.chainId, addresses |-> c.addresses]
    ELSE [op |-> "eval", key |-> KeyOf(c.entry)]

\* The calls a sweep over the listing has to make: for each chain, taken in
\* the order of its first entry, one fetch with the addresses of the chain's
\* entries and then the evaluation of each of them, both in listing order.
RECURSIVE ExpectedCalls(_, _)
ExpectedCalls(entries, firsts) ==
    IF firsts = {} THEN <<>>
    ELSE LET i == CHOOSE k \in firsts : \A j \in firsts : k <= j
             OfChain(e) == e.chainId = entries[i].chainId
             members == SelectSeq(entries, OfChain)
         IN  <<[op |-> "fetch", chainId |-> entries[i].chainId,
                addresses |-> [k \in 1..Len(members) |-> members[k].tokenAddress]]>>
             \o [k \in 1..Len(members) |-> [op |-> "eval", key |-> KeyOf(members[k])]]
             \o ExpectedCalls(entries, firsts \ {i})

FirstOfChain(entries) ==
    {i \in 1..Len(entries) : \A j \in 1..(i - 1) : entries[j].chainId # entries[i].chainId}

\* C17: the calls of a sweep are, chain by chain in the order of first
\* appearance in the listing, one fetch with exactly the addresses of the
\* chain's entries followed by the evaluation of those entries in listing
\* order: at every moment the log is a prefix of that sequence, and all of it
\* once the sweep has returned.
C17_OneFetchPerChain ==
    LET expected == ExpectedCalls(store, FirstOfChain(store))
    IN  /\ Len(calls) <= Len(expected)
        /\ \A k \in 1..Len(calls) : CallShape(calls[k]) = expected[k]
        /\ (sweeps[1].pc = "done" /\ calls # <<>>) => Len(calls) = Len(expected)

\* A sweep over bsc, ton, bsc entries has returned after two fetches, the
\* first with both bsc addresses.
C17_Witness ==
    /\ sweeps[1].pc = "done"
    /\ Len(store) = 3
    /\ store[1].chainId = bsc /\ store[2].chainId = ton /\ store[3].chainId = bsc
    /\ Len(calls) = 5
    /\ calls[1].op = "fetch" /\ Len(calls[1].addresses) = 2
    /\ calls[4].op = "fetch" /\ calls[4].chainId = ton

\* C20: a fetch that fails for one chain group (it brings an empty map) does
\* not end the sweep: once the sweep has returned, every chain of the listing
\* has had its fetch and every entry its evaluation, whatever fetches failed.
C20_ChainFailureIsolated ==
    (sweeps[1].pc = "done" /\ calls # <<>>) =>
        \A i \in 1..Len(store) :
            /\ \E k \in 1..Len(calls) :
                  calls[k].op = "fetch" /\ calls[k].chainId = store[i].chainId
            /\ \E k \in 1..Len(calls) :
                  calls[k].op = "eval" /\ KeyOf(calls[k].entry) = KeyOf(store[i])

\* The first chain's fetch failed; the second chain's entry was fetched at
\* 0.95, alerted and its reference written.
C20_Witness ==
    /\ sweeps[1].pc = "done"
    /\ Len(calls) = 4
    /\ calls[1].op = "fetch" /\ calls[1].got = {}
    /\ calls[3].op = "fetch" /\ calls[3].got # {}
    /\ calls[3].chainId # calls[1].chainId
    /\ store[2].lastAlertPrice = 95

RECURSIVE Flatten(_)
Flatten(seqs) == IF seqs = <<>> THEN <<>> ELSE Head(seqs) \o Flatten(Tail(seqs))

\* The positions of the input that request b has to carry, and those the
\* upstream answered for.
CarriedBy(b, n) == {k \in 1..n : (b - 1) * 30 < k /\ k <= b * 30}
AnsweredIn(b, n) ==
    CASE batch.responses[b] = "error" -> {}
      [] batch.responses[b] = "all" -> CarriedBy(b, n)
      [] OTHER -> {k \in CarriedBy(b, n) : k # (b - 1) * 30 + 1}

\* C18: for n addresses getMultipleTokensData sends ceil(n / 30) requests of
\* at most 30 addresses each, which carry the input once and in order, and its
\* result map holds, under the lowercased address, the data of exactly the
\* tokens that the requests that did not fail were answered for.
C18_BatchCeiling ==
    batch.returned =>
        LET n == Len(batch.tokenAddresses)
            requests == batch.requests
            answered == UNION {AnsweredIn(b, n) : b \in 1..Len(requests)}
        IN  /\ Len(requests) = (n + 29) \div 30
            /\ \A b \in 1..Len(requests) :
                  Len(requests[b]) >= 1 /\ Len(requests[b]) <= 30
            /\ Flatten(requests) = batch.tokenAddresses
            /\ \A r \in batch.results : IsLowerCase(r.address)
            /\ \A k \in answered :
                  \E r \in batch.results :
                      /\ ToLowerCase(r.address) = ToLowerCase(batch.tokenAddresses[k])
                      /\ r.priceUsd = 100
            /\ Cardinality(batch.results) = Cardinality(answered)

\* 61 addresses went out in three requests; the second failed and the map
\* holds the 31 tokens of the other two.
C18_Witness ==
    /\ batch.returned
    /\ Len(batch.tokenAddresses) = 61
    /\ Len(batch.requests) = 3
    /\ batch.responses[1] = "all"
    /\ batch.responses[2] = "error"
    /\ batch.responses[3] = "all"
    /\ Cardinality(batch.results) = 31

\* C19: an entry whose address is not in the fetched map is passed over as
\* having no data, not as a price of 0: no alert, no write, the store as it
\* was, and the sweep goes on with the entries that remain.
C19_NoDataSkipped ==
    [][\A s \in SweepIds :
        (Evaluates(s) /\ ~HasData(s)) =>
            /\ store' = store
            /\ sweeps'[s].pc \notin {"send", "write"}
            /\ sweeps'[s].msg = NoMsg
            /\ sweeps'[s].upd = NoUpd
            /\ GoesOn(s)
            /\ sweeps'[s].pc # "done" => sweeps'[s].last = "nodata"]_vars

\* The first entry of a group had no data; the map has the second one's.
C19_Witness ==
    /\ sweeps[1].pc = "eval"
    /\ sweeps[1].ei = 2
    /\ sweeps[1].last = "nodata"
    /\ \E r \in sweeps[1].tokenDataMap :
          r.address = Head(sweeps[1].groups)[2].tokenAddress
    /\ \A r \in sweeps[1].tokenDataMap :
          r.address # Head(sweeps[1].groups)[1].tokenAddress

\* C21: a listing whose read fails (the database not connected included) ends
\* the sweep at once as a sweep over an empty watchlist does: the checkPrices()
\* call returns, it never fetches, alerts or writes, the store and the
\* scheduler are as they were, and ticks go on starting sweeps.
C21_ReadFailureIsNoOp ==
    [][\A s \in SweepIds :
        (sweeps[s].pc = "list" /\ SweepMoves(s)) =>
            /\ sweeps'[s] = IF calls'[Len(calls')].dbOk THEN ListResume(sweeps[s], store) ELSE Done
            /\ \A r \in SweepIds \ {s} : sweeps'[r] = sweeps[r]
            /\ store' = store
            /\ monitorInterval' = monitorInterval
            /\ (events < MaxEvents /\ FreeSweeps # {}) => ENABLED TickLogged]_vars

\* The first sweep's read failed and it returned at once, the entries still
\* stored; the tick after that started a sweep that has listed them and is
\* fetching.
C21_Witness ==
    /\ store # <<>>
    /\ sweeps[1].pc = "done"
    /\ sweeps[2].pc = "fetch"
    /\ Len(calls) = 4
    /\ calls[2] = [op |-> "list", sweep |-> 1, dbOk |-> FALSE]
    /\ calls[3].op = "tick"
    /\ calls[4] = [op |-> "list", sweep |-> 2, dbOk |-> TRUE]

\* C22: a reference write that fails after an alert changes nothing in the
\* store, is not called again for the entry, takes no alert back and lets the
\* sweep go on with the entries that remain; the reference keeps its old
\* value, so that as long as the writes fail every sweep that fetches the same
\* price alerts again (reference 1.00, 0.94 fetched by every sweep).
C22_WriteFailureSwallowed ==
    [][/\ (sweeps[1].pc = "write" /\ SweepMoves(1) /\ ~calls'[Len(calls')].dbOk) =>
            /\ store' = store
            /\ alerts' = alerts
            /\ GoesOn(1)
            /\ sweeps'[1].pc \notin {"send", "write"} \/ sweeps'[1].ei # sweeps[1].ei
       /\ (NoSweepRunning /\ TrackedReference = 100) =>
            alerts = Len(RepeatedPrices) - Len(script)]_vars

\* The write after the first sweep's alert failed; the second sweep fetched
\* the same 0.94 and has alerted chat 1 again.
C22_Witness ==
    /\ Len(script) = 1
    /\ alerts = 2
    /\ TrackedReference = 100
    /\ sweeps[1].pc = "write"
    /\ sweeps[1].upd.chatId = "1"
    /\ Len(calls) = 1
    /\ ~calls[1].dbOk

\* C23: every stored entry has 0 < dropThreshold <= 100. The direct add, the
\* interactive add with its 'skip', the direct threshold command and the
\* interactive threshold step all answer a text that is not a number, or is
\* <= 0 or > 100, with a refusal and leave the store as it is.
C23_ThresholdInRange ==
    [][/\ \A i \in 1..Len(store') :
            store'[i].dropThreshold > 0 /\ store'[i].dropThreshold <= 100
       /\ reply'.text \in {"Invalid threshold", "Threshold must be a number"} =>
            store' = store]_vars

\* A direct add stored an entry with threshold 10, and the interactive add's
\* threshold step has just refused a text, its conversation kept.
C23_Witness ==
    /\ reply.text = "Invalid threshold"
    /\ conversationState.map[1] # 0
    /\ conversationState.objects[conversationState.map[1]].step = "threshold"
    /\ Len(store) = 1
    /\ store[1].dropThreshold = 10

\* C24: an entry is created with initialPrice equal to its first reference
\* price, and no step (sweep, threshold update, reference write, any command)
\* changes the initialPrice or the addedAt of an entry that is still stored.
C24_InitialPriceKept ==
    [][/\ \A i \in 1..Len(store), j \in 1..Len(store') :
            SameKey(store'[j], store[i].tokenAddress, store[i].chainId, store[i].chatId) =>
                /\ store'[j].initialPrice = store[i].initialPrice
                /\ store'[j].addedAt = store[i].addedAt
       /\ Len(store') > Len(store) =>
            /\ Len(store') = Len(store) + 1
            /\ store'[Len(store')].initialPrice = store'[Len(store')].lastAlertPrice
            /\ store'[Len(store')].initialPrice \in AddPrices]_vars

\* An entry added at 1.00 with threshold 5 whose reference a sweep has reset
\* to 0.95 and whose threshold was then set to 10: its initialPrice is 1.00.
C24_Witness ==
    \E i \in 1..Len(store) :
        /\ store[i].initialPrice = 100
        /\ store[i].lastAlertPrice = 95
        /\ store[i].dropThreshold = 10

\* C25: nothing makes list, fetch, compare and write of one entry atomic: a
\* write that reaches the database sets the stored reference to the price its
\* own sweep fetched, whatever the reference is by then and whatever other
\* sweep wrote it since the listing.
C25_WriteIsBlind ==
    [][\A s \in SweepIds :
        (sweeps[s].pc = "write" /\ SweepMoves(s) /\ calls'[Len(calls')].dbOk) =>
            store' = Rewritten(store, Entry(s), Fetched(s))]_vars

\* Sweep 1 started first and fetched 0.95, sweep 2 fetched the later 1.06;
\* sweep 2 wrote 1.06, then sweep 1 wrote 0.95: the reference ends at the
\* older price.
C25_Witness ==
    /\ script = <<>>
    /\ Len(calls) = 2
    /\ calls[1].sweep = 2 /\ calls[1].dbOk /\ calls[1].upd.newPrice = 106
    /\ calls[2].sweep = 1 /\ calls[2].dbOk /\ calls[2].upd.newPrice = 95
    /\ calls[1].upd.chatId = "1" /\ calls[2].upd.chatId = "1"
    /\ TrackedReference = 95

\* C26: stopMonitor leaves the sweeps and the store as they are; a sweep in
\* flight when the monitor is stopped can always take its next step, and it
\* goes on, alerting and writing as it would have, until it has returned.
C26_StopIsCooperative ==
    /\ [][(monitorInterval # 0 /\ monitorInterval' = 0) =>
            (sweeps' = sweeps /\ store' = store)]_vars
    /\ []((monitorInterval = 0 /\ InFlight(1)) => ENABLED SweepStep(1))
    /\ (monitorInterval = 0 /\ InFlight(1)) ~> (sweeps[1].pc = "done")

\* The monitor was stopped while the sweep was in flight; after the stop the
\* sweep sent two alerts, wrote chat 1's reference and returned.
C26_Witness ==
    /\ monitorInterval = 0
    /\ sweeps[1].pc = "done"
    /\ Len(calls) = 4
    /\ calls[1].op = "send" /\ calls[3].op = "send"
    /\ \E k \in {2, 4} :
          calls[k].op = "write" /\ calls[k].dbOk /\ calls[k].upd.chatId = "1"
    /\ TrackedReference = 94

\* The pairs of a response that the selection is made among for token addr,
\* and the one the claim names: of greatest liquidity (none counting as 0),
\* the first such in response order.
Among(data, addr) ==
    {k \in 1..Len(data) : data[k].address # <<>> /\ ToLowerCase(data[k].address) = addr}
Usd(pair) == IF pair.liquidity.missing THEN 0 ELSE pair.liquidity.usd
Chosen(data, among) ==
    CHOOSE k \in among :
        /\ \A j \in among : Usd(data[j]) <= Usd(data[k])
        /\ \A j \in among : j < k => Usd(data[j]) < Usd(data[k])

\* C27: the batched fetch holds, for each token of the response, the data of
\* that token's pair of greatest liquidity, a missing liquidity counting as 0
\* and the first in response order winning among equals; getTokenData returns
\* the data of the pair chosen that way among all pairs of its response.
C27_BestPairChosen ==
    LET data == batch.responses
        tokens == {ToLowerCase(data[k].address) : k \in {j \in 1..Len(data) : data[j].address # <<>>}}
    IN  /\ batch.returned =>
            /\ {r.address : r \in batch.results} = tokens
            /\ \A r \in batch.results :
                  r.priceUsd = data[Chosen(data, Among(data, r.address))].priceUsd
            /\ Cardinality(batch.results) = Cardinality(tokens)
        /\ calls # <<>> =>
            /\ calls[1].found
            /\ calls[1].priceUsd = data[Chosen(data, 1..Len(data))].priceUsd

\* Three pairs of token a: none, 10 and 10 of liquidity; both fetches took the
\* second pair.
C27_Witness ==
    /\ batch.returned
    /\ calls # <<>>
    /\ Len(batch.responses) = 3
    /\ batch.responses[1] = Pair(<<"A">>, NoLiquidity, 101)
    /\ batch.responses[2] = Pair(<<"a">>, [missing |-> FALSE, usd |-> 10], 102)
    /\ batch.responses[3] = Pair(<<"A">>, [missing |-> FALSE, usd |-> 10], 103)
    /\ batch.results = {[address |-> <<"a">>, priceUsd |-> 102]}
    /\ calls[1].priceUsd = 102

\* What a returned text shows: its last character, whether a character occurs,
\* and the count of digits after the point.
LastChar(text) == text[Len(text)]
Has(text, c) == \E i \in 1..Len(text) : text[i] = c
DecimalDigits == {"0", "1", "2", "3", "4", "5", "6", "7", "8", "9"}
Decimals(text) ==
    IF ~Has(text, ".") THEN 0
    ELSE LET point == CHOOSE i \in 1..Len(text) : text[i] = "."
         IN  Cardinality({i \in (point + 1)..Len(text) :
                            /\ text[i] \in DecimalDigits
                            /\ \A j \in (point + 1)..i : text[j] \in DecimalDigits})
Num(m, e) == [absent |-> FALSE, neg |-> FALSE, m |-> m, e |-> e]
Txt(op) == {calls[i].text : i \in {j \in 1..Len(calls) : calls[j].op = op}}

\* C28: formatPrice and formatMarketCap return the same text for the same
\* number and touch nothing else, and the tiers begin exactly at their
\* boundaries: the market cap is N/A for 0 or absent, plain with 2 decimals
\* below 1000, K from 1000, M from 1e6, B from 1e9, T from 1e12; the price is
\* $0.00 for 0, scientific below 1e-8, zero-stripped decimals below 1, 4
\* decimals from 1 to below 1000, grouped with 2 decimals from 1000.
C28_FormatTiers ==
    LET x == script[1]
        caps == Txt("formatMarketCap")
        prices == Txt("formatPrice")
    IN  /\ Cardinality(caps) <= 1 /\ Cardinality(prices) <= 1
        /\ store = <<>> /\ batch = NoBatch /\ reply = NoReply
        /\ \A t \in caps :
            /\ (x.absent \/ x.m = 0) <=> t = <<"N", "/", "A">>
            /\ ~(x.absent \/ x.m = 0) =>
                /\ t[1] = "$" /\ Decimals(t) = 2 /\ ~Has(t, "e")
                /\ Less(x, 3) <=> LastChar(t) \in DecimalDigits
                /\ (AtLeast(x, 3) /\ Less(x, 6)) <=> LastChar(t) = "K"
                /\ (AtLeast(x, 6) /\ Less(x, 9)) <=> LastChar(t) = "M"
                /\ (AtLeast(x, 9) /\ Less(x, 12)) <=> LastChar(t) = "B"
                /\ AtLeast(x, 12) <=> LastChar(t) = "T"
            /\ x = Num(1, 3) => t = <<"$", "1", ".", "0", "0", "K">>
            /\ x = Num(9999, 0 - 1) => t = <<"$", "9", "9", "9", ".", "9", "0">>
            /\ x = Num(1, 6) => t = <<"$", "1", ".", "0", "0", "M">>
            /\ x = Num(1, 9) => t = <<"$", "1", ".", "0", "0", "B">>
            /\ x = Num(1, 12) => t = <<"$", "1", ".", "0", "0", "T">>
            /\ x = Num(9999, 8) => t = <<"$", "9", "9", "9", ".", "9", "0", "B">>
        /\ \A t \in prices :
            /\ t[1] = "$"
            /\ x.m = 0 <=> t = <<"$", "0", ".", "0", "0">>
            /\ x.m # 0 =>
                /\ Less(x, 0 - 8) <=> Has(t, "e")
                /\ (AtLeast(x, 0 - 8) /\ Less(x, 0)) =>
                      /\ LastChar(t) \in DecimalDigits
                      /\ Has(t, ".") => LastChar(t) # "0"
                      /\ Decimals(t) <= 10
                /\ (AtLeast(x, 0) /\ Less(x, 3)) => (Decimals(t) = 4 /\ ~Has(t, ","))
                /\ AtLeast(x, 3) <=> (Has(t, ",") /\ Decimals(t) = 2)
            /\ x = Num(9999, 0 - 12) => t = <<"$", "9", ".", "9", "9", "9", "0", "e", "-", "9">>
            /\ x = Num(1, 0 - 8) => t = <<"$", "0", ".", "0", "0", "0", "0", "0", "0", "0", "1">>
            /\ x = Num(12, 0 - 2) => t = <<"$", "0", ".", "1", "2">>
            /\ x = Num(1, 0) => t = <<"$", "1", ".", "0", "0", "0", "0">>
            /\ x = Num(9999, 0 - 1) => t = <<"$", "9", "9", "9", ".", "9", "0", "0", "0">>
            /\ x = Num(1, 3) => t = <<"$", "1", ",", "0", "0", "0", ".", "0", "0">>

\* Exactly 1000 was given to both functions.
C28_Witness ==
    /\ script = <<Num(1, 3)>>
    /\ Len(calls) = 2
    /\ calls[1] = [op |-> "formatMarketCap", text |-> <<"$", "1", ".", "0", "0", "K">>]
    /\ calls[2] = [op |-> "formatPrice", text |-> <<"$", "1", ",", "0", "0", "0", ".", "0", "0">>]

\* The entries of the store that a call with these arguments is about.
Matching(coll, call) ==
    {i \in 1..Len(coll) :
        SameKey(coll[i], ToLowerCase(call.tokenAddress), ToLowerCase(call.chainId), call.chatId)}

\* updateThreshold leaves the store's length, every entry it is not about, and
\* every field but dropThreshold of the one it is about; when it returns true
\* the entry exists and holds the new threshold.
ThresholdUpdateFrame(call) ==
    /\ Len(store') = Len(store)
    /\ \A i \in 1..Len(store) :
        /\ i \notin Matching(store, call) => store'[i] = store[i]
        /\ [store'[i] EXCEPT !.dropThreshold = 0] = [store[i] EXCEPT !.dropThreshold = 0]
    /\ call.result =>
        /\ Cardinality(Matching(store, call)) = 1
        /\ \A i \in Matching(store, call) : store'[i].dropThreshold = call.value

\* C29: updateThreshold changes only the dropThreshold of the one entry with
\* the given address, chain and chat, never that entry's lastAlertPrice or
\* initialPrice and never another entry, and it returns true exactly when such
\* an entry exists. The last part fails: when the storage call fails the
\* function returns false for an entry that exists.
C29_ThresholdUpdateOnly ==
    [][(events' # events /\ calls'[1].op = "updateThreshold") =>
        /\ ThresholdUpdateFrame(calls'[1])
        /\ calls'[1].result <=> Matching(store, calls'[1]) # {}]_vars

\* The logged steps of flow ref before position k, and the last of them.
StepsBefore(op, ref, k) == {j \in 1..(k - 1) : calls[j].op = op /\ calls[j].ref = ref}
LastBefore(op, ref, k) ==
    CHOOSE j \in StepsBefore(op, ref, k) : \A i \in StepsBefore(op, ref, k) : i <= j
ProcessAdds == {k \in 1..Len(calls) : calls[k].op = "processAdd"}

\* processAdd comes after the flow's chain callback and, later, its address
\* message, with that chain and address and a threshold in (0,100], and with
\* the chat's state deleted.
AddInOrder(k) ==
    LET ref == calls[k].ref
    IN  /\ StepsBefore("start", ref, k) # {}
        /\ StepsBefore("chain", ref, k) # {}
        /\ StepsBefore("address", ref, k) # {}
        /\ LastBefore("start", ref, k) < LastBefore("chain", ref, k)
        /\ LastBefore("chain", ref, k) < LastBefore("address", ref, k)
        /\ calls[LastBefore("start", ref, k)].chatId = calls[k].chatId
        /\ calls[k].chainId = calls[LastBefore("chain", ref, k)].chainId
        /\ calls[k].tokenAddress = calls[LastBefore("address", ref, k)].tokenAddress
        /\ calls[k].threshold \in {5, 10}
        /\ calls[k].state = 0

\* C30: in the interactive add flow processAdd is invoked only after the
\* chain callback, the address message and a valid threshold (or skip, 5) in
\* that order, with that chain, address and threshold, with the chat's state
\* deleted, and at most once per flow. The last part fails: a chain callback
\* still waiting for editMessageText sets the state again after processAdd
\* has run, and a further threshold message invokes processAdd once more.
C30_AddFlowInOrderOnce ==
    /\ \A k \in ProcessAdds : AddInOrder(k)
    /\ \A k \in ProcessAdds : \A j \in ProcessAdds : calls[j].ref = calls[k].ref => j = k

\* The texts the claim calls invalid as a threshold: not a number, 0, 101; the
\* threshold flow has no 'skip'.
InvalidTexts == {<<"a", "B">>, <<"0">>, <<"1", "0", "1">>}
NotPercents == InvalidTexts \cup {<<"S", "k", "i", "p">>}
AtThresholdStep(chatId) ==
    /\ conversationState.map[chatId] # 0
    /\ \/ /\ conversationState.objects[conversationState.map[chatId]].command = "add"
          /\ conversationState.objects[conversationState.map[chatId]].step = "threshold"
       \/ /\ conversationState.objects[conversationState.map[chatId]].command = "threshold"
          /\ conversationState.objects[conversationState.map[chatId]].step = "percent"

\* C31: in the interactive add and threshold flows a threshold text that is
\* not a number, is <= 0 or is > 100 (and is not 'skip' in the add flow)
\* causes no store operation and no processor call, and leaves the chat's
\* conversation at the same step with the chain and the address it had, so
\* that the next text is read as the threshold again.
C31_InvalidThresholdKeepsStep ==
    [][\A chatId \in ChatInputs :
        (\/ \E text \in InvalidTexts : MessageThreshold(chatId, text)
         \/ \E text \in NotPercents : MessagePercent(chatId, text)) =>
            /\ store' = store
            /\ calls' = calls
            /\ conversationState' = conversationState
            /\ AtThresholdStep(chatId)'
            /\ reply'.text = "Invalid threshold"]_vars

\* The threshold flow has just refused a text and is still at its percent
\* step with the chain and the address collected before.
C31_Witness ==
    /\ reply.text = "Invalid threshold"
    /\ AtThresholdStep(1)
    /\ conversationState.objects[conversationState.map[1]] =
            [command |-> "threshold", step |-> "percent", chain |-> bsc,
             address |-> <<"a", "B">>]
    /\ Len(calls) = 3

\* A step that cancels the conversation of a chat, one that starts one, and
\* what holds of a step taken while the chat has no conversation.
Cancels(chatId) == HandleCancel(chatId) \/ HandleCallbackQuery(chatId, CancelData)
StartsFlow(chatId) == \E command \in InteractiveCommands : HandleInteractive(chatId, command)
StaysCancelled(chatId) ==
    /\ conversationState'.map[chatId] = 0
    /\ calls' = calls
    /\ \A data \in CallbackData \ {CancelData} :
            HandleCallbackQuery(chatId, data) =>
                /\ reply'.text = "Session expired"
                /\ conversationState' = conversationState
                /\ store' = store

\* C32: /cancel and the cancel button remove the chat's conversation state
\* and leave the other chats' states alone; from then on, until an interactive
\* command is started in that chat, no text message invokes a processor or
\* changes an entry, a chain button is answered as an expired session, and no
\* state appears. The last part fails: a chain callback that was waiting for
\* editMessageText when the cancel came sets the state again.
C32_CancelEndsFlow ==
    [][\A chatId \in ChatInputs :
        /\ Cancels(chatId) =>
            /\ conversationState'.map[chatId] = 0
            /\ \A other \in ChatIds \ {chatId} :
                    conversationState'.map[other] = conversationState.map[other]
            /\ store' = store
        /\ (conversationState.map[chatId] = 0 /\ ~StartsFlow(chatId)) =>
            StaysCancelled(chatId)]_vars

\* C33: connectDB makes at most MAX_RETRIES (3) attempts, waits 1000 ms after
\* the first failure and 2000 ms after the second and nothing after the third;
\* a successful attempt ends the call, and after the third failure the call
\* throws that attempt's error; getDB throws unless db is set.
C33_ConnectRetries ==
    /\ \A k \in 1..Len(calls) :
        LET step == calls[k]
            first == k = 1
            last == k = Len(calls)
        IN  /\ step.attempt \in 1..3
            /\ step.op = "attempt" =>
                IF step.attempt = 1
                THEN first \/ calls[k - 1].op \in {"returned", "thrown"}
                ELSE calls[k - 1] = DbStep("delay", step.attempt - 1,
                                           IF step.attempt = 2 THEN 1000 ELSE 2000)
            /\ step.op = "delay" =>
                /\ step.attempt \in {1, 2}
                /\ step.ms = (IF step.attempt = 1 THEN 1000 ELSE 2000)
                /\ calls[k - 1] = DbStep("attempt", step.attempt, 0)
                /\ ~last => calls[k + 1] = DbStep("attempt", step.attempt + 1, 0)
            /\ step.op = "thrown" =>
                /\ step.attempt = 3
                /\ calls[k - 1] = DbStep("attempt", 3, 0)
                /\ ~last => calls[k + 1] = DbStep("attempt", 1, 0)
            /\ step.op = "returned" =>
                /\ calls[k - 1] = DbStep("attempt", step.attempt, 0)
                /\ ~last => calls[k + 1] = DbStep("attempt", 1, 0)
    /\ database.pc = "thrown" => database.lastError = 3 /\ database.attempt = 3
    /\ database.pc = "delay" => calls[Len(calls)].op = "delay"
    /\ database.pc \in {"connect", "index"} => calls[Len(calls)].op = "attempt"
    /\ GetDB.thrown <=> database.db = 0

\* connectDB failed three times, having waited 1000 and 2000 ms, and threw.
C33_Witness ==
    /\ calls = <<DbStep("attempt", 1, 0), DbStep("delay", 1, 1000),
                 DbStep("attempt", 2, 0), DbStep("delay", 2, 2000),
                 DbStep("attempt", 3, 0), DbStep("thrown", 3, 0)>>
    /\ clock.now = 3000
    /\ database.pc = "thrown"
    /\ database.lastError = 3
    /\ GetDB.thrown

\* C40: isConnected() is true, and getDB() returns a handle, only once a
\* connectDB call has returned (connection made and index created), and after
\* a connectDB call has failed on all its attempts both report not connected.
\* This fails: db is assigned before createIndex is awaited and is not
\* cleared when an attempt fails.
C40_ConnectedOnlyAfterSuccess ==
    /\ (IsConnected \/ ~GetDB.thrown) =>
            \E k \in 1..Len(calls) : calls[k].op = "returned"
    /\ database.pc = "thrown" => (~IsConnected /\ GetDB.thrown)

\* The stored entries with the key of the entry a sweep is evaluating.
StoredNow(s) ==
    {i \in 1..Len(store) :
        SameKey(store[i], Entry(s).tokenAddress, Entry(s).chainId, Entry(s).chatId)}

\* C34: no alert is sent for an entry that has been removed (and not added
\* again), also by a sweep that listed it before the removal: a sweep that
\* raises an alert does so for an entry that is stored at that moment. This
\* fails: the sweep evaluates the entries of its listing.
C34_NoAlertAfterRemoval ==
    [][\A s \in SweepIds : (Evaluates(s) /\ Fires(s)) => StoredNow(s) # {}]_vars

\* The entries a sweep still holds from its listing, and the keys stored.
Held(sw) ==
    UNION {{sw.groups[g][k] : k \in 1..Len(sw.groups[g])} : g \in 1..Len(sw.groups)}
StoredKeys(coll) == [k \in 1..Len(coll) |-> KeyOf(coll[k])]

\* C34 as the code has it: a sweep alerts only for entries of its own listing,
\* which is the content of the store when the listing returned, so a sweep
\* that lists after a removal never alerts for the removed entry, while one
\* that listed it before may; its later updateLastAlertPrice matches nothing
\* and does not store the entry again.
C34_AlertsFromListing ==
    [][\A s \in SweepIds :
        /\ (sweeps[s].pc = "list" /\ SweepMoves(s)) =>
                Held(sweeps'[s]) \subseteq {store[i] : i \in 1..Len(store)}
        /\ sweeps[s].pc # "list" => Held(sweeps'[s]) \subseteq Held(sweeps[s])
        /\ (Evaluates(s) /\ Fires(s)) => Entry(s) \in Held(sweeps[s])
        /\ (sweeps[s].pc = "write" /\ SweepMoves(s)) =>
                StoredKeys(store') = StoredKeys(store)]_vars

\* The entry was removed while a sweep that had listed it was in flight; the
\* sweep has sent its alert and is calling updateLastAlertPrice for it.
C34_Witness ==
    \E s \in SweepIds :
        /\ sweeps[s].pc = "write"
        /\ sweeps[s].sent = "ok"
        /\ sweeps[s].upd.newPrice = 95
        /\ store = <<>>

\* C35: an alert fires only when the absolute percent change reaches the
\* dropThreshold the entry has in the store at that moment, so that a
\* threshold raised while a sweep is in flight counts for that sweep. This
\* fails: the sweep compares with the dropThreshold of its listing.
C35_StoredThresholdHonoured ==
    [][\A s \in SweepIds : (Evaluates(s) /\ Fires(s)) =>
        \A i \in StoredNow(s) :
            ReachesThreshold(AbsChange(PercentChange(Fetched(s), Entry(s).lastAlertPrice)),
                             store[i].dropThreshold)]_vars

\* C35 as the code has it: the threshold that decides is the dropThreshold the
\* entry had when the sweep listed it. With valid prices the sweep alerts
\* exactly when the change reaches that threshold, whatever updateThreshold
\* has stored since; a raised threshold counts from the next listing on.
C35_ListedThresholdDecides ==
    [][\A s \in SweepIds :
        /\ (Evaluates(s) /\ ValidPrices(s)) =>
            (Fires(s) <=>
                Entry(s).dropThreshold * Entry(s).lastAlertPrice
                    <= Abs(Fetched(s) - Entry(s).lastAlertPrice) * 100)
        /\ (sweeps[s].pc = "list" /\ SweepMoves(s)) =>
            \A e \in Held(sweeps'[s]) : \E i \in 1..Len(store) :
                /\ KeyOf(store[i]) = KeyOf(e)
                /\ store[i].dropThreshold = e.dropThreshold]_vars

\* An alert being sent for a fall of 5 percent by a sweep that listed the
\* entry at threshold 5, after the stored threshold was raised to 10.
C35_Witness ==
    \E s \in SweepIds :
        /\ sweeps[s].pc = "send"
        /\ Entry(s).dropThreshold = 5
        /\ Fetched(s) = 95
        /\ StoredNow(s) # {}
        /\ \A i \in StoredNow(s) : store[i].dropThreshold = 10

\* The reference writes logged so far for the entry of key k that reached the
\* database, and the reference they leave stored (reference 1.00 before any).
WritesOf(log, k) == {n \in 1..Len(log) : KeyOf(log[n].upd) = k /\ log[n].dbOk}
LastWritten(log, k) ==
    IF WritesOf(log, k) = {} THEN Tracked.lastAlertPrice
    ELSE log[CHOOSE n \in WritesOf(log, k) : \A m \in WritesOf(log, k) : m <= n].upd.newPrice
AlertPending(r, k) == sweeps[r].pc \in {"send", "write"} /\ KeyOf(Entry(r)) = k

\* C36: no two alerts of one entry are against the same stored reference:
\* when a sweep raises an alert for an entry, every earlier alert for that
\* entry has had its reference write, the write reached the database, and
\* the reference the sweep compared with is the last of those written
\* prices. Overlapping sweeps and failing writes both violate this.
C36_OneAlertPerReference ==
    [][\A s \in SweepIds : (Evaluates(s) /\ Fires(s)) =>
        /\ \A r \in SweepIds \ {s} : ~AlertPending(r, KeyOf(Entry(s)))
        /\ \A n \in 1..Len(calls) : KeyOf(calls[n].upd) = KeyOf(Entry(s)) => calls[n].dbOk
        /\ Entry(s).lastAlertPrice = LastWritten(calls, KeyOf(Entry(s)))]_vars

\* C36 as the code has it: a sweep compares with the references of its own
\* listing, which are those stored when the listing returned, that is the
\* price of the last reference write that reached the database; it raises at
\* most one alert per listed entry, and its write carries the price that
\* triggered the alert. So a second alert is against the first one's
\* triggering price when its sweep listed after the first one's write reached
\* the database, and against the same reference as the first when the sweep
\* listed earlier or the write failed.
C36_ReferenceOfListing ==
    [][\A s \in SweepIds :
        /\ (sweeps[s].pc = "list" /\ SweepMoves(s)) =>
            \A e \in Held(sweeps'[s]) : e.lastAlertPrice = LastWritten(calls, KeyOf(e))
        /\ (Evaluates(s) /\ Fires(s)) =>
            /\ Entry(s) \in Held(sweeps[s])
            /\ Entry(s).dropThreshold * Entry(s).lastAlertPrice
                    <= Abs(Fetched(s) - Entry(s).lastAlertPrice) * 100
        /\ (sweeps[s].pc = "write" /\ SweepMoves(s)) =>
            /\ calls'[Len(calls')].upd = UpdateCall(Entry(s), Fetched(s))
            /\ sweeps'[s].pc \in {"send", "write", "eval"} =>
                    /\ sweeps'[s].groups = sweeps[s].groups
                    /\ sweeps'[s].ei = sweeps[s].ei + 1
            /\ \A i \in 1..Len(store') :
                    store'[i].lastAlertPrice = LastWritten(calls', KeyOf(store'[i]))]_vars

\* Sweep 1 alerted chat 1 at 0.95 against 1.00 and its write reached the
\* database; sweep 2 is alerting at 1.06 against the reference 0.95 it listed.
C36_Witness ==
    /\ Len(calls) = 1
    /\ calls[1].dbOk /\ calls[1].sweep = 1
    /\ calls[1].upd.chatId = "1" /\ calls[1].upd.newPrice = 95
    /\ sweeps[2].pc = "send"
    /\ Entry(2).chatId = "1"
    /\ Entry(2).lastAlertPrice = 95
    /\ Fetched(2) = 106

\* C37: addToWatchlist returns null only when an entry with the same address
\* (in any letter case), chain and chat is already stored; otherwise it
\* returns the new entry, which is stored from then on. The first part fails:
\* any other storage error is answered with null as well, for an entry that
\* is not stored, and the caller reports it as already in the watchlist.
C37_NullOnlyForDuplicate ==
    [][(events' # events /\ calls'[1].op = "add") =>
        /\ ~calls'[1].result => Matching(store, calls'[1]) # {}
        /\ calls'[1].result =>
            /\ Matching(store, calls'[1]) = {}
            /\ Len(store') = Len(store) + 1
            /\ Matching(store', calls'[1]) = {Len(store')}]_vars

\* The stored entry of key k, before the step, has reference p.
KeptReference(k, p) ==
    \E i \in 1..Len(store) : KeyOf(store[i]) = k /\ store[i].lastAlertPrice = p

\* Sweep s, whose evaluation of the entry of key k raised an alert at the
\* fetched price p, is returning from its reference write.
WritesTriggered(s, k, p) ==
    /\ sweeps[s].pc = "write" /\ SweepMoves(s)
    /\ KeyOf(Entry(s)) = k
    /\ Fetched(s) = p
    /\ ValidPrices(s)
    /\ Entry(s).dropThreshold * Entry(s).lastAlertPrice
            <= Abs(p - Entry(s).lastAlertPrice) * 100

\* C38: a stored reference price is the entry's initialPrice or a price that
\* a sweep fetched for the entry's address and chain and that triggered an
\* alert for the entry: after every step each stored entry has the reference
\* it had before, or its initialPrice (a new entry), or the price of the
\* alert whose write is returning; a step that is no reference write (an add
\* of another entry, a remove, a threshold update, an evaluation that does not
\* fire) changes no reference of an entry that stays stored.
C38_ReferenceIsInitialOrAlerted ==
    [][/\ \A i \in 1..Len(store') :
            \/ KeptReference(KeyOf(store'[i]), store'[i].lastAlertPrice)
            \/ /\ store'[i].lastAlertPrice = store'[i].initialPrice
               /\ \A j \in 1..Len(store) : KeyOf(store[j]) # KeyOf(store'[i])
            \/ \E s \in SweepIds :
                    WritesTriggered(s, KeyOf(store'[i]), store'[i].lastAlertPrice)
       /\ (\A s \in SweepIds : ~(sweeps[s].pc = "write" /\ SweepMoves(s))) =>
            \A i \in 1..Len(store), j \in 1..Len(store') :
                KeyOf(store'[j]) = KeyOf(store[i]) =>
                    store'[j].lastAlertPrice = store[i].lastAlertPrice]_vars

\* An entry added at 1.00 with threshold 5 whose reference a sweep has moved
\* to 1.06, the price of its alert.
C38_Witness ==
    \E i \in 1..Len(store) :
        /\ store[i].initialPrice = 100
        /\ store[i].lastAlertPrice = 106
        /\ store[i].dropThreshold = 5

\* The last listing read, sendMessage or reference write to return failed.
LastFailed == calls # <<>> /\ ~calls[1].dbOk
Rebased == TrackedReference = 94

====
